---- MODULE Spec2Model ----
(***************************************************************************)
(* Crystal Runtime: the script managers (native thread-per-script and      *)
(* cooperative single-threaded), the binding layer and the Scene Store.    *)
(***************************************************************************)
EXTENDS Integers, Sequences, FiniteSets, TLC

VARIABLES
    strategy,       \* "native" (scripting/manager.rs) or "coop" (scripting/wasm.rs)
    archive,        \* CGameArchive.files: the entries of the archive
    objects,        \* DataModel.objects: Vec<SceneObject> behind the RwLock
    running,        \* LuaScriptManager.running: Arc<AtomicBool>
    threads,        \* native LuaScriptManager.threads: the join handles held
    thr,            \* the native script threads ever spawned, by handle
    mgr,            \* the caller's position in start()/stop()/wait()
    active_tasks,   \* coop LuaScriptManager.active_tasks: Arc<AtomicUsize>
    execution_lock, \* coop LuaScriptManager.execution_lock: holder task, 0 = free
    tasks,          \* coop LuaScriptManager.tasks: the abort handles held
    launched,       \* coop LuaScriptManager.launched
    task,           \* the coop script tasks ever spawned (spawn_local), by handle
    runtime,        \* the Luau global __host_runtime: chunk name -> state
    lock,           \* DataModel.objects: the RwLock's holders
    callers,        \* the threads inside a DataModel method, by position
    input,          \* InputState: the keys and mouse buttons held down
    query           \* the last call of service.input.GetKeyDown and its result

vars == <<strategy, archive, objects, running, threads, thr, mgr,
          active_tasks, execution_lock, tasks, launched, task, runtime,
          lock, callers, input, query>>

\* What the script managers leave alone: the lock is free between their
\* steps, each of which is one whole DataModel call.
storeVars == <<lock, callers>>

\* The input state and the script's query of it.
inputVars == <<input, query>>

nativeVars == <<threads, thr>>
coopVars == <<active_tasks, execution_lock, tasks, launched, task, runtime>>

----------------------------------------------------------------------------
(* Bounds of the model. *)

\* start() is called at most this many times on one manager, and once
\* more directly after a start() that returned an error.
MaxStarts == 2
\* At most this many script operations run between two firings of the
\* instruction-count hook (the hook fires after a fixed number of VM
\* instructions; one script operation is several instructions).
MaxOpsPerHook == 2
\* A cooperative tick that executes more operations than this without
\* reaching wait() or the end of the script never returns to the host.
MaxTickOps == 6

(* Program constants. *)

\* const CHUNK: u64 = 10 in register_wait
CHUNK == 10
\* the values SceneObject::default() gives fov and intensity
DefaultFov == 45
DefaultIntensity == 1

----------------------------------------------------------------------------
(* Scene objects and the Scene Store (data_model.rs, scene.rs). *)

Fields == {"position", "rotation", "scale", "color", "fov", "intensity"}
VectorFields == {"position", "rotation", "scale", "color"}

\* SceneObject::default() with the given name. A scalar field holds
\* <<v, 0, 0>> so that every field value has the same shape.
SceneObject(name) ==
    [name |-> name,
     position |-> <<0, 0, 0>>,
     rotation |-> <<0, 0, 0>>,
     scale |-> <<1, 1, 1>>,
     color |-> <<1, 1, 1>>,
     fov |-> <<DefaultFov, 0, 0>>,
     intensity |-> <<DefaultIntensity, 0, 0>>]

\* Index of the first object with the name, 0 when there is none
\* (iter().find(|object| object.name == name)).
RECURSIVE FindFrom(_, _, _)
FindFrom(objs, name, i) ==
    IF i > Len(objs) THEN 0
    ELSE IF objs[i].name = name THEN i
    ELSE FindFrom(objs, name, i + 1)

\* A faulty search: the last object with the name, not the first.
FindLast(objs, name) ==
    IF \E i \in 1..Len(objs) : objs[i].name = name
    THEN CHOOSE i \in 1..Len(objs) :
           /\ objs[i].name = name
           /\ \A j \in (i + 1)..Len(objs) : objs[j].name # name
    ELSE 0

\* iter().find(|object| object.name == name): the index of the first
\* object with the name, 0 for None.
Find(objs, name) == FindFrom(objs, name, 1)

\* DataModel::get: a clone of the first object with the name, or None.
Get(objs, name) ==
    IF Find(objs, name) = 0 THEN [some |-> FALSE, obj |-> SceneObject("")]
    ELSE [some |-> TRUE, obj |-> objs[Find(objs, name)]]

\* A faulty update: the object is found but the closure's assignment is
\* lost.
SetFieldLost(objs, name, field, value) ==
    [objs |-> objs, found |-> Find(objs, name) # 0]

\* DataModel::update with the closure of set_<field>: the store after the
\* call and the bool the setter returns.
SetField(objs, name, field, value) ==
    LET i == Find(objs, name) IN
    IF i = 0 THEN [objs |-> objs, found |-> FALSE]
    ELSE [objs |-> [objs EXCEPT ![i] = [@ EXCEPT ![field] = value]],
          found |-> TRUE]

\* DataModel::all_objects: a clone of the whole vector.
AllObjects(objs) == objs

\* The scene of a session: two named objects, as Scene::from_xml yields.
InitialObjects == <<SceneObject("Cube"), SceneObject("Lamp")>>

----------------------------------------------------------------------------
(* Script values and the binding layer's conversions. *)

\* The Lua values a script passes to a setter, as the script builds them.
Vector3(x, y, z) == [kind |-> "Vector3", v |-> <<x, y, z>>]
Color3(r, g, b) == [kind |-> "Color3", v |-> <<r, g, b>>]
Number(n) == [kind |-> "number", v |-> <<n, 0, 0>>]
Text == [kind |-> "string", v |-> <<0, 0, 0>>]

\* LuaColor3::from_rgb: Vec3::new(r, g, b) / 255.0 (the channels of the
\* model are multiples of 255, for which the division is exact).
from_rgb(c) == <<c[1] \div 255, c[2] \div 255, c[3] \div 255>>

\* impl FromLua for LuaVector3: a Vector3 userdata converts, a userdata of
\* another type or a non-table value is a conversion error.
FromLuaVector3(val) ==
    IF val.kind = "Vector3" THEN [ok |-> TRUE, v |-> val.v]
    ELSE [ok |-> FALSE, v |-> <<0, 0, 0>>]

\* impl FromLua for LuaColor3: a Color3 userdata (normalised by Color3.new),
\* or a Vector3 userdata taken as it is.
FromLuaColor3(val) ==
    IF val.kind = "Color3" THEN [ok |-> TRUE, v |-> from_rgb(val.v)]
    ELSE IF val.kind = "Vector3" THEN [ok |-> TRUE, v |-> val.v]
    ELSE [ok |-> FALSE, v |-> <<0, 0, 0>>]

\* f32: FromLua: a number converts, the text of the model is not numeric.
FromLuaF32(val) ==
    IF val.kind = "number" THEN [ok |-> TRUE, v |-> val.v]
    ELSE [ok |-> FALSE, v |-> <<0, 0, 0>>]

\* The argument conversion of PlaceObject's add_field_method_set closures.
NativeConvert(field, val) ==
    IF field \in {"position", "rotation", "scale"} THEN FromLuaVector3(val)
    ELSE IF field = "color" THEN FromLuaColor3(val)
    ELSE FromLuaF32(val)

\* LUAU_HELPERS __to_vec3: a table with numeric x, y, z (or X, Y, Z).
to_vec3(val) ==
    IF val.kind = "Vector3" THEN [ok |-> TRUE, v |-> val.v]
    ELSE [ok |-> FALSE, v |-> <<0, 0, 0>>]

\* LUAU_HELPERS __to_color3: a table with numeric r, g, b, each over 255.
to_color3(val) ==
    IF val.kind = "Color3" THEN [ok |-> TRUE, v |-> from_rgb(val.v)]
    ELSE [ok |-> FALSE, v |-> <<0, 0, 0>>]

\* The value meta.__newindex records for a field, or not ok when it
\* ignores the assignment.
CoopConvert(field, val) ==
    IF field \in {"position", "rotation", "scale"} THEN to_vec3(val)
    ELSE IF field = "color" THEN to_color3(val)
    ELSE IF val.kind = "number" THEN [ok |-> TRUE, v |-> val.v]
    ELSE [ok |-> FALSE, v |-> <<0, 0, 0>>]

----------------------------------------------------------------------------
(* Scripts: a script is a sequence of operations; h is the operation a     *)
(* surrounding pcall continues at when the operation raises (0: no pcall). *)

\* local o = place.get(name); o.field = val
Set(name, field, val) ==
    [op |-> "set", name |-> name, field |-> field, val |-> val,
     d |-> 0, to |-> 0, h |-> 0]
\* wait(d) with the number d
Wait(d) ==
    [op |-> "wait", name |-> "", field |-> "fov", val |-> Number(0),
     d |-> d, to |-> 0, h |-> 0]
\* wait() with no argument
WaitNoArg == [Wait(0) EXCEPT !.val = [kind |-> "nil", v |-> <<0, 0, 0>>]]
\* wait("soon"): a duration that is not a number
WaitText == [Wait(0) EXCEPT !.val = Text]
\* pcall(function() wait(d) end), continuing at h
PcallWait(d, h) == [Wait(d) EXCEPT !.h = h]
\* the back edge of a loop
Jump(to) ==
    [op |-> "jump", name |-> "", field |-> "fov", val |-> Number(0),
     d |-> 0, to |-> to, h |-> 0]
\* pcall(function() while true do end end), continuing at h
PcallSpin(self, h) == [Jump(self) EXCEPT !.h = h]
\* error("boom")
Error ==
    [op |-> "error", name |-> "", field |-> "fov", val |-> Number(0),
     d |-> 0, to |-> 0, h |-> 0]

\* table.insert(__host_runtime[chunk].changes,
\*              { object = name, field = field, value = v })
\* with the json value v: the script writes into the evaluator's global
\* table itself. v is <<x, y, z>> for a well-shaped value and <<>> for one
\* that is not an object of numbers or a number.
Record(name, field, v) ==
    [op |-> "record", name |-> name, field |-> field,
     val |-> [kind |-> "json", v |-> v], d |-> 0, to |-> 0, h |-> 0]

\* local cube = place.get('Cube') cube.color = Color3.new(255,0,0)
\* (tests::script_updates_data_model)
ScriptSetColor == <<Set("Cube", "color", Color3(255, 0, 0))>>
\* while true do wait(20) end
ScriptWaitLoop == <<Wait(20), Jump(1)>>
\* while true do cube.fov = 60 end
ScriptBusy == <<Set("Cube", "fov", Number(60)), Jump(1)>>
\* wait(5) lamp.intensity = 2
ScriptWaitThenSet == <<Wait(5), Set("Lamp", "intensity", Number(2))>>
\* while true do pcall(function() while true do end end) end
ScriptCatch == <<PcallSpin(1, 2), Jump(1)>>
\* cube.position = Vector3.new(1,2,3) error("boom")
ScriptSetThenError == <<Set("Cube", "position", Vector3(1, 2, 3)), Error>>
\* lamp.scale = Vector3.new(2,2,2) wait(20) lamp.rotation = Vector3.new(0,9,0)
ScriptTwoTicks ==
    <<Set("Lamp", "scale", Vector3(2, 2, 2)), Wait(20),
      Set("Lamp", "rotation", Vector3(0, 9, 0))>>
\* cube.fov = "wide" cube.scale = Vector3.new(3,3,3)
ScriptMalformed ==
    <<Set("Cube", "fov", Text), Set("Cube", "scale", Vector3(3, 3, 3))>>
\* place.get('Ghost').fov = 7 lamp.fov = 7
ScriptUnknown ==
    <<Set("Ghost", "fov", Number(7)), Set("Lamp", "fov", Number(7))>>
\* wait() wait(0) cube.fov = 50
ScriptYield == <<WaitNoArg, Wait(0), Set("Cube", "fov", Number(50))>>
\* cube.fov = 50 wait(-5) lamp.fov = 50
ScriptNegativeWait ==
    <<Set("Cube", "fov", Number(50)), Wait(-5), Set("Lamp", "fov", Number(50))>>
\* cube.intensity = 3 wait("soon") lamp.intensity = 3
ScriptTextWait ==
    <<Set("Cube", "intensity", Number(3)), WaitText,
      Set("Lamp", "intensity", Number(3))>>
\* cube.fov = 30, then a change for the unknown object Ghost written into
\* the change list, then lamp.fov = 7
ScriptForeignChange ==
    <<Set("Cube", "fov", Number(30)), Record("Ghost", "fov", <<7, 0, 0>>),
      Set("Lamp", "fov", Number(7))>>

----------------------------------------------------------------------------
(* The archive (archive.rs): entries with a name, given as its path        *)
(* segments, the stored bytes' state and, for a script, its text.          *)

\* A faulty filter: every entry inside a directory is taken for a script.
IsAnyEntry(entry) == Len(entry.name) >= 2

\* entry.name.starts_with("scripts/")
IsScriptEntry(entry) == Len(entry.name) >= 2 /\ entry.name[1] = "scripts"

\* data: "utf8" (extracts and decodes), "notutf8" (String::from_utf8
\* fails), "unreadable" (extract_entry fails).
Entry(name, data, script) == [name |-> name, data |-> data, script |-> script]

EntryA(script) == Entry(<<"scripts", "a.lua">>, "utf8", script)
EntryB(script) == Entry(<<"scripts", "b.lua">>, "utf8", script)
EntryMesh == Entry(<<"meshes", "cube.obj">>, "utf8", <<>>)
EntryNotUtf8 == Entry(<<"scripts", "b.lua">>, "notutf8", <<>>)
EntryUnreadable == Entry(<<"scripts", "b.lua">>, "unreadable", <<>>)
EntryCorrupt == Entry(<<"scripts", "a.lua">>, "unreadable", <<>>)

\* The archives a session is opened on.
Archives ==
    { <<>>,
      <<EntryMesh>>,
      <<EntryA(ScriptSetColor)>>,
      <<EntryMesh, EntryA(ScriptWaitLoop)>>,
      <<EntryA(ScriptBusy)>>,
      <<EntryA(ScriptWaitThenSet)>>,
      <<EntryA(ScriptCatch)>>,
      <<EntryA(ScriptTwoTicks)>>,
      <<EntryA(ScriptMalformed)>>,
      <<EntryA(ScriptUnknown)>>,
      <<EntryA(ScriptForeignChange)>>,
      <<EntryA(ScriptYield)>>,
      <<EntryA(ScriptNegativeWait)>>,
      <<EntryA(ScriptTextWait)>>,
      <<EntryA(ScriptSetThenError), EntryB(ScriptSetColor)>>,
      <<EntryA(ScriptSetColor), EntryNotUtf8>>,
      <<EntryA(ScriptTwoTicks), EntryUnreadable>>,
      <<EntryCorrupt, EntryB(ScriptSetColor)>>,
      <<EntryA(ScriptWaitLoop), EntryB(ScriptSetColor)>> }

\* start(): files().iter().filter(starts_with("scripts/")).cloned().collect(),
\* as the indices of the entries kept, in order.
RECURSIVE ScriptEntriesFrom(_, _)
ScriptEntriesFrom(files, i) ==
    IF i > Len(files) THEN <<>>
    ELSE IF IsScriptEntry(files[i])
         THEN <<i>> \o ScriptEntriesFrom(files, i + 1)
         ELSE ScriptEntriesFrom(files, i + 1)

ScriptEntries(files) == ScriptEntriesFrom(files, 1)

----------------------------------------------------------------------------
(* The native strategy: one thread per script (scripting/manager.rs).      *)

Min(a, b) == IF a < b THEN a ELSE b

\* The script a thread or task runs: the text of its archive entry.
ScriptOf(u) == archive[u.entry].script

\* The operation at the unit's position.
OpAt(u) == ScriptOf(u)[u.pc]

\* A thread as thread::spawn leaves it: run_script_thread not yet begun.
NewThread(run, entry) ==
    [run |-> run, entry |-> entry, st |-> "load", pc |-> 1,
     remaining |-> 0, since |-> 0, res |-> "none"]

\* run_script_thread has returned res: the thread has ended and its Lua
\* state is dropped.
Exited(th, res) ==
    [th EXCEPT !.st = "exited", !.res = res, !.pc = 0, !.remaining = 0,
               !.since = 0]

\* A Lua error raised at the thread's current operation: a surrounding
\* pcall catches it and the script goes on at the handler; with no pcall
\* exec() returns the error and run_script_thread returns Err. since is
\* the number of operations since the hook ran last.
Raise(th, kind, since) ==
    IF th.pc <= Len(ScriptOf(th)) /\ OpAt(th).h # 0
    THEN [th EXCEPT !.pc = OpAt(th).h, !.st = "exec", !.remaining = 0,
                    !.since = since]
    ELSE Exited(th, kind)

\* run_script_thread up to lua.load: Lua::new, set_hook, register_globals,
\* extract_entry and String::from_utf8.
NativeLoad(t) ==
    /\ strategy = "native"
    /\ thr[t].st = "load"
    /\ thr' = [thr EXCEPT ![t] =
                IF archive[thr[t].entry].data = "utf8"
                THEN [@ EXCEPT !.st = "exec"]
                ELSE Exited(@, "source")]
    /\ UNCHANGED <<storeVars, inputVars, strategy, archive, objects, running, threads, mgr, coopVars>>

\* The hook closure of set_hook, run every 1000 VM instructions: it raises
\* "script stopped by host" when the running flag is false.
NativeHook(t) ==
    /\ strategy = "native"
    /\ thr[t].st = "exec"
    /\ thr[t].since > 0
    /\ thr' = [thr EXCEPT ![t] =
                IF running THEN [@ EXCEPT !.since = 0]
                ELSE Raise(@, "stopped", 0)]
    /\ UNCHANGED <<storeVars, inputVars, strategy, archive, objects, running, threads, mgr, coopVars>>

\* The thread may execute one more operation before the hook must run.
CanExec(t) ==
    /\ strategy = "native"
    /\ thr[t].st = "exec"
    /\ thr[t].since < MaxOpsPerHook

\* register_scene's get_fn and index_fn: nil for an empty key and for a
\* key data_model.get finds no object for, else a PlaceObject userdata.
place_get(objs, name) ==
    IF name = "" \/ ~Get(objs, name).some THEN "nil" ELSE "proxy"

\* The store after the native `place.get(name).field = val`, and whether
\* the statement raised: indexing the nil place.get yields for an unknown
\* name raises, and the setter's argument conversion fails on a malformed
\* value.
NativeAssign(objs, name, field, val) ==
    IF place_get(objs, name) = "nil" \/ ~NativeConvert(field, val).ok
    THEN [objs |-> objs, raised |-> TRUE]
    ELSE [objs |-> SetField(objs, name, field, NativeConvert(field, val).v).objs,
          raised |-> FALSE]

\* A setter of PlaceObject::add_fields, reached through place.get.
NativeSet(t) ==
    /\ CanExec(t)
    /\ thr[t].pc <= Len(ScriptOf(thr[t]))
    /\ OpAt(thr[t]).op = "set"
    /\ LET o == OpAt(thr[t])
           r == NativeAssign(objects, o.name, o.field, o.val)
       IN /\ objects' = r.objs
          /\ thr' = [thr EXCEPT ![t] =
                      IF r.raised
                      THEN Raise(@, "runtime", @.since + 1)
                      ELSE [@ EXCEPT !.pc = @ + 1, !.since = @ + 1]]
    /\ UNCHANGED <<storeVars, inputVars, strategy, archive, running, threads, mgr, coopVars>>

\* A faulty argument type, u64 in place of Option<u64>: a missing
\* argument is a conversion error too.
FromLuaMillisRequired(o) ==
    IF o.val.kind = "number" /\ o.d >= 0
    THEN [ok |-> TRUE, some |-> TRUE, ms |-> o.d]
    ELSE [ok |-> FALSE, some |-> FALSE, ms |-> 0]

\* The argument of register_wait's closure, millis: Option<u64>, as mlua
\* converts it: nil is None, a number that fits a u64 is Some, a negative
\* number ("out of range") and a value that is no number are conversion
\* errors raised in the script.
FromLuaMillis(o) ==
    IF o.val.kind = "nil" THEN [ok |-> TRUE, some |-> FALSE, ms |-> 0]
    ELSE IF o.val.kind = "number" /\ o.d >= 0
    THEN [ok |-> TRUE, some |-> TRUE, ms |-> o.d]
    ELSE [ok |-> FALSE, some |-> FALSE, ms |-> 0]

\* register_wait's closure on entry: millis.unwrap_or(0); a zero duration
\* yields once and returns, a positive one enters the slice loop.
NativeWaitCall(t) ==
    /\ CanExec(t)
    /\ thr[t].pc <= Len(ScriptOf(thr[t]))
    /\ OpAt(thr[t]).op = "wait"
    /\ LET millis == FromLuaMillis(OpAt(thr[t])) IN
       thr' = [thr EXCEPT ![t] =
                IF ~millis.ok
                THEN Raise(@, "runtime", @.since + 1)
                ELSE IF millis.ms = 0
                THEN [@ EXCEPT !.pc = @ + 1, !.since = @ + 1]
                ELSE [@ EXCEPT !.st = "check", !.remaining = millis.ms,
                               !.since = @ + 1]]
    /\ UNCHANGED <<storeVars, inputVars, strategy, archive, objects, running, threads, mgr, coopVars>>

\* The head of a slice: wait_running.load, "wait interrupted" when false.
NativeWaitCheck(t) ==
    /\ strategy = "native"
    /\ thr[t].st = "check"
    /\ thr' = [thr EXCEPT ![t] =
                IF running THEN [@ EXCEPT !.st = "sleep"]
                ELSE Raise(@, "interrupted", @.since)]
    /\ UNCHANGED <<storeVars, inputVars, strategy, archive, objects, running, threads, mgr, coopVars>>

\* The thread after one slice: sleep(min(remaining, CHUNK)) has elapsed;
\* the loop goes on while remaining > 0, else wait returns Ok.
AfterSleep(th) ==
    LET sleep == Min(th.remaining, CHUNK)
        left == th.remaining - sleep
    IN IF left > 0
       THEN [th EXCEPT !.remaining = left, !.st = "check"]
       ELSE [th EXCEPT !.remaining = 0, !.st = "exec", !.pc = @ + 1]

NativeWaitSleep(t) ==
    /\ strategy = "native"
    /\ thr[t].st = "sleep"
    /\ thr' = [thr EXCEPT ![t] = AfterSleep(@)]
    /\ UNCHANGED <<storeVars, inputVars, strategy, archive, objects, running, threads, mgr, coopVars>>

\* A loop's back edge.
NativeJump(t) ==
    /\ CanExec(t)
    /\ thr[t].pc <= Len(ScriptOf(thr[t]))
    /\ OpAt(thr[t]).op = "jump"
    /\ thr' = [thr EXCEPT ![t] = [@ EXCEPT !.pc = OpAt(thr[t]).to, !.since = @ + 1]]
    /\ UNCHANGED <<storeVars, inputVars, strategy, archive, objects, running, threads, mgr, coopVars>>

\* error(...) in the script, or a statement that indexes the global
\* __host_runtime, which the native Lua state does not have (nil).
NativeError(t) ==
    /\ CanExec(t)
    /\ thr[t].pc <= Len(ScriptOf(thr[t]))
    /\ OpAt(thr[t]).op \in {"error", "record"}
    /\ thr' = [thr EXCEPT ![t] = Raise(@, "runtime", @.since + 1)]
    /\ UNCHANGED <<storeVars, inputVars, strategy, archive, objects, running, threads, mgr, coopVars>>

\* The chunk's end: exec() returns Ok and the thread ends.
NativeFinish(t) ==
    /\ CanExec(t)
    /\ thr[t].pc > Len(ScriptOf(thr[t]))
    /\ thr' = [thr EXCEPT ![t] = Exited(@, "ok")]
    /\ UNCHANGED <<storeVars, inputVars, strategy, archive, objects, running, threads, mgr, coopVars>>

----------------------------------------------------------------------------
(* The native manager's calls. The caller is in one call at a time         *)
(* (&mut self); a call that joins blocks at "join" until the threads end.  *)

\* The caller after a call has returned: op is the call, ret its result
\* (Ok or Err), errors the parts of an Err's message, count the number the
\* last start() returned (main.rs keeps it as `count`; -1 when the last
\* start() returned Err and so no number), run the number of
\* the start() whose scripts were spawned last, and stopped whether a
\* stop() has returned since they were spawned.
Returned(op, ret, errors) ==
    [mgr EXCEPT !.pc = "idle", !.op = op, !.ret = ret, !.errors = errors,
                !.stopped = IF op = "wait" THEN @ ELSE TRUE]

\* A faulty return of start(): the count misses one script.
StartedShort(n) ==
    [mgr EXCEPT !.pc = "idle", !.op = "start", !.ret = "ok", !.errors = <<>>,
                !.count = n - 1, !.run = mgr.starts, !.stopped = FALSE]

\* The caller after a start() that spawned n scripts has returned.
Started(n) ==
    [mgr EXCEPT !.pc = "idle", !.op = "start", !.ret = "ok", !.errors = <<>>,
                !.count = n, !.run = mgr.starts, !.stopped = FALSE]

\* start(): self.stop()? begins by clearing the flag, then joins.
NativeStart ==
    /\ strategy = "native"
    /\ mgr.pc = "idle"
    /\ mgr.starts < MaxStarts \/ (mgr.op = "start" /\ mgr.ret = "err")
    /\ running' = FALSE
    /\ mgr' = [mgr EXCEPT !.pc = "join", !.op = "start", !.ret = "none",
                          !.errors = <<>>, !.starts = @ + 1]
    /\ UNCHANGED <<storeVars, inputVars, strategy, archive, objects, threads, thr, coopVars>>

\* stop(): running.store(false), then join_threads().
NativeStop ==
    /\ strategy = "native"
    /\ mgr.pc = "idle"
    /\ running' = FALSE
    /\ mgr' = [mgr EXCEPT !.pc = "join", !.op = "stop", !.ret = "none",
                          !.errors = <<>>]
    /\ UNCHANGED <<storeVars, inputVars, strategy, archive, objects, threads, thr, coopVars>>

\* wait(): join_threads().
NativeWait ==
    /\ strategy = "native"
    /\ mgr.pc = "idle"
    /\ mgr' = [mgr EXCEPT !.pc = "join", !.op = "wait", !.ret = "none",
                          !.errors = <<>>]
    /\ UNCHANGED <<storeVars, inputVars, strategy, archive, objects, running, threads, thr, coopVars>>

\* handle.join() returns for every handle held: the threads have ended.
Joined(hs) == \A i \in 1..Len(hs) : thr[hs[i]].st = "exited"

\* A faulty errors vector: only the first thread that returned Err is in
\* it.
ErrorsFirst(hs, i) ==
    IF \E k \in i..Len(hs) : thr[hs[k]].res # "ok"
    THEN <<thr[hs[CHOOSE k \in i..Len(hs) :
                    /\ thr[hs[k]].res # "ok"
                    /\ \A j \in i..(k - 1) : thr[hs[j]].res = "ok"]].res>>
    ELSE <<>>

\* join_threads' errors vector: the result of every thread that returned
\* Err, in handle order.
RECURSIVE ErrorsFrom(_, _)
ErrorsFrom(hs, i) ==
    IF i > Len(hs) THEN <<>>
    ELSE IF thr[hs[i]].res = "ok" THEN ErrorsFrom(hs, i + 1)
    ELSE <<thr[hs[i]].res>> \o ErrorsFrom(hs, i + 1)

\* A faulty join_threads: the handles are put back when a thread returned
\* Err.
JoinThreadsKeep(hs, flag) ==
    [threads |-> IF ErrorsFrom(hs, 1) = <<>> THEN <<>> ELSE hs,
     running |-> IF hs # <<>> /\ ErrorsFrom(hs, 1) = <<>> THEN FALSE ELSE flag,
     ok |-> ErrorsFrom(hs, 1) = <<>>,
     errors |-> ErrorsFrom(hs, 1)]

\* join_threads once the joins have returned: no handle is left, the flag
\* is cleared when handles were joined without an error, and the result is
\* Err exactly when some thread returned Err.
JoinThreads(hs, flag) ==
    LET errors == ErrorsFrom(hs, 1) IN
    [threads |-> <<>>,
     running |-> IF hs # <<>> /\ errors = <<>> THEN FALSE ELSE flag,
     ok |-> errors = <<>>,
     errors |-> errors]

\* The rest of a call from the point where join_threads' joins return:
\* stop() and wait() return its result; start() returns its error, or
\* Ok(0) when no entry is a script, or sets the flag and spawns one thread
\* per script entry.
NativeJoin ==
    /\ strategy = "native"
    /\ mgr.pc = "join"
    /\ Joined(threads)
    /\ LET j == JoinThreads(threads, running)
           entries == ScriptEntries(archive)
       IN IF mgr.op = "start" /\ j.ok /\ entries # <<>>
          THEN /\ running' = TRUE
               /\ thr' = thr \o [i \in 1..Len(entries) |->
                                   NewThread(mgr.starts, entries[i])]
               /\ threads' = [i \in 1..Len(entries) |-> Len(thr) + i]
               /\ mgr' = Started(Len(entries))
          ELSE /\ running' = j.running
               /\ thr' = thr
               /\ threads' = j.threads
               /\ mgr' = IF mgr.op = "start" /\ j.ok
                         THEN [Returned("start", "ok", <<>>) EXCEPT !.count = 0]
                         ELSE IF mgr.op = "start"
                         THEN [Returned("start", "err", j.errors)
                                 EXCEPT !.count = -1]
                         ELSE Returned(mgr.op, IF j.ok THEN "ok" ELSE "err",
                                       j.errors)
    /\ UNCHANGED <<storeVars, inputVars, strategy, archive, objects, coopVars>>

----------------------------------------------------------------------------
(* The cooperative strategy (scripting/wasm.rs): one spawn_local task per  *)
(* script; every tick is one call of the external Luau evaluator.          *)

\* A change as __record_change stores it and apply_change reads it.
Change(name, field, v) == [object |-> name, field |-> field, value |-> v]

\* LUAU_HELPERS wait: tonumber(duration) or 0.
ToNumberOrZero(o) == IF o.val.kind = "number" THEN o.d ELSE 0

\* LUAU_HELPERS wait and __host_run_script: the duration not below zero.
WaitMs(d) == IF d < 0 THEN 0 ELSE d

\* LUAU_HELPERS __wrap_object, behind scene.get and scene's __index, during
\* a tick (__host_current_state is set): the cached or a new proxy table
\* for the name, whether or not state.objects has an entry for it.
wrap_object(objs, name) == "proxy"

\* One tick of the script's coroutine, from coroutine.resume to the next
\* coroutine.yield, the script's end or its error, against the objects of
\* the payload. meta.__newindex ignores an unknown object and a malformed
\* value and records every other assignment; an entry the script puts into
\* state.changes itself is in the list as it is. thread is the position the
\* coroutine is suspended at afterwards (0: state.thread = nil), stop the
\* position the tick ended at.
RECURSIVE RunTick(_, _, _, _, _)
RunTick(script, pc, objs, changes, fuel) ==
    IF fuel = 0
    THEN [outcome |-> "hung", changes |-> <<>>, wait |-> 0,
          finished |-> FALSE, thread |-> pc, stop |-> pc]
    ELSE IF pc > Len(script)
    THEN [outcome |-> "returned", changes |-> changes, wait |-> 0,
          finished |-> TRUE, thread |-> 0, stop |-> pc]
    ELSE IF script[pc].op = "set"
    THEN LET o == script[pc]
             c == CoopConvert(o.field, o.val)
         IN IF wrap_object(objs, o.name) = "nil"
            THEN IF o.h # 0
                 THEN RunTick(script, o.h, objs, changes, fuel - 1)
                 ELSE [outcome |-> "error", changes |-> <<>>, wait |-> 0,
                       finished |-> FALSE, thread |-> 0, stop |-> pc]
            ELSE IF Get(objs, o.name).some /\ c.ok
            THEN RunTick(script, pc + 1,
                         SetField(objs, o.name, o.field, c.v).objs,
                         Append(changes, Change(o.name, o.field, c.v)),
                         fuel - 1)
            ELSE RunTick(script, pc + 1, objs, changes, fuel - 1)
    ELSE IF script[pc].op = "record"
    THEN RunTick(script, pc + 1, objs,
                 Append(changes, Change(script[pc].name, script[pc].field,
                                        script[pc].val.v)),
                 fuel - 1)
    ELSE IF script[pc].op = "wait"
    THEN [outcome |-> "returned", changes |-> changes,
          wait |-> WaitMs(ToNumberOrZero(script[pc])), finished |-> FALSE,
          thread |-> pc + 1, stop |-> pc + 1]
    ELSE IF script[pc].op = "jump"
    THEN RunTick(script, script[pc].to, objs, changes, fuel - 1)
    ELSE IF script[pc].h # 0
    THEN RunTick(script, script[pc].h, objs, changes, fuel - 1)
    ELSE [outcome |-> "error", changes |-> <<>>, wait |-> 0,
          finished |-> FALSE, thread |-> 0, stop |-> pc]

\* LUAU_HELPERS __encode of a list: a table of length 0 is written as a
\* JSON object, any other list as a JSON array.
Encode(list) ==
    IF Len(list) > 0 THEN [json |-> "array", items |-> list]
    ELSE [json |-> "object", items |-> <<>>]

\* execute_script's serde_json::from_str::<RawScriptResult>: changes must
\* be a JSON array (Vec<ScriptChange>).
ParseResult(result) == result.changes.json = "array"

\* apply_change: Err for an unsupported field, for a value parse_vec3 or
\* parse_f32 rejects, and for an object the setter does not find.
apply_change(objs, change) ==
    IF change.field \notin Fields \/ Len(change.value) # 3
    THEN [objs |-> objs, ok |-> FALSE]
    ELSE LET r == SetField(objs, change.object, change.field, change.value)
         IN [objs |-> r.objs, ok |-> r.found]

\* apply_change for every change of a result, in order; the first change
\* that fails ends the loop with the error (the `?`), the changes before
\* it applied.
RECURSIVE ApplyChanges(_, _, _)
ApplyChanges(objs, changes, i) ==
    IF i > Len(changes) THEN [objs |-> objs, ok |-> TRUE]
    ELSE LET r == apply_change(objs, changes[i])
         IN IF r.ok THEN ApplyChanges(r.objs, changes, i + 1)
            ELSE [objs |-> objs, ok |-> FALSE]

\* A faulty finish_task: the counter is decremented twice.
finish_task_twice(active, flag) ==
    [active |-> active - 2,
     running |-> IF active = 1 THEN FALSE ELSE flag]

\* finish_task: fetch_sub(1), and the flag is cleared when the value before
\* was 1. The counter is a usize of 32 bits read as a signed number, so the
\* value after 0 - 1 (usize::MAX) is written -1.
finish_task(active, flag) ==
    [active |-> active - 1,
     running |-> IF active = 1 THEN FALSE ELSE flag]

\* The result slot of a task that holds no result of the evaluator.
NoResult ==
    [changes |-> Encode(<<>>), wait |-> 0, finished |-> FALSE, ran |-> <<1, 1>>]

\* A task as spawn_local leaves it: not yet polled.
NewTask(run, entry) ==
    [run |-> run, entry |-> entry, st |-> "spawned", aborted |-> FALSE,
     res |-> "none", snapshot |-> <<>>, job |-> "none", result |-> NoResult]

\* The task ended: its future is dropped with whatever result it held and
\* the spawn_local wrapper has run finish_task. A call of the evaluator
\* that has not run yet stays with the evaluator.
Done(tk, res) ==
    [tk EXCEPT !.st = "done", !.res = res, !.result = NoResult,
               !.snapshot = IF tk.job = "pending" THEN @ ELSE <<>>,
               !.job = IF @ = "pending" THEN "pending" ELSE "none"]

\* state.thread of __host_runtime[chunk]: the position the chunk's
\* coroutine is suspended at, 0 when there is no state or no live thread.
Continuation(rt, chunk) == IF chunk \in DOMAIN rt THEN rt[chunk] ELSE 0

\* The number of leading script entries extract_script_source succeeds on.
RECURSIVE Extractable(_, _)
Extractable(entries, i) ==
    IF i > Len(entries) \/ archive[entries[i]].data # "utf8" THEN i - 1
    ELSE Extractable(entries, i + 1)

\* stop()'s body: the flag is cleared and every handle held is aborted.
AbortAll(tks, hs) ==
    [t \in 1..Len(tks) |->
        IF \E i \in 1..Len(hs) : hs[i] = t
        THEN [tks[t] EXCEPT !.aborted = TRUE] ELSE tks[t]]

\* start(): stop(), then Ok(0) with no script entry; else the counter is
\* reset, the flag set and one task spawned per entry until an entry fails
\* to extract, which returns the error and keeps the tasks spawned so far.
CoopStart ==
    /\ strategy = "coop"
    /\ mgr.starts < MaxStarts
    /\ LET entries == ScriptEntries(archive)
           n == Extractable(entries, 1)
           old == AbortAll(task, tasks)
       IN IF entries = <<>>
          THEN /\ running' = FALSE
               /\ task' = old
               /\ tasks' = <<>>
               /\ launched' = 0
               /\ active_tasks' = active_tasks
               /\ mgr' = [Returned("start", "ok", <<>>)
                            EXCEPT !.count = 0, !.starts = @ + 1]
          ELSE /\ running' = TRUE
               /\ task' = old \o [i \in 1..n |->
                                    NewTask(mgr.starts + 1, entries[i])]
               /\ tasks' = [i \in 1..n |-> Len(task) + i]
               /\ active_tasks' = n
               /\ launched' = IF n = Len(entries) THEN n ELSE launched
               /\ mgr' = IF n = Len(entries)
                         THEN [Started(n) EXCEPT !.starts = @ + 1,
                                                 !.run = mgr.starts + 1]
                         ELSE [Returned("start", "err", <<"source">>)
                                 EXCEPT !.starts = @ + 1, !.count = -1,
                                        !.run = mgr.starts + 1,
                                        !.stopped = FALSE]
    /\ UNCHANGED <<storeVars, inputVars, strategy, archive, objects, execution_lock, runtime, nativeVars>>

\* stop(): the flag is cleared, every handle aborted, Ok(()) returned.
CoopStop ==
    /\ strategy = "coop"
    /\ running' = FALSE
    /\ task' = AbortAll(task, tasks)
    /\ tasks' = <<>>
    /\ mgr' = Returned("stop", "ok", <<>>)
    /\ UNCHANGED <<storeVars, inputVars, strategy, archive, objects, active_tasks, execution_lock,
                   launched, runtime, nativeVars>>

\* wait(): Ok(()).
CoopWait ==
    /\ strategy = "coop"
    /\ mgr' = Returned("wait", "ok", <<>>)
    /\ UNCHANGED <<storeVars, inputVars, strategy, archive, objects, running, coopVars, nativeVars>>

\* A faulty Abortable: an aborted task is still polled.
PollableAborted(t) == strategy = "coop"

\* Abortable::poll lets the task future run only while the task's handle
\* has not been aborted.
Pollable(t) == strategy = "coop" /\ ~task[t].aborted

\* The while loop's head, reached at the first poll and when the timer of
\* the previous tick fires: with the flag set, build_script_payload takes
\* the all_objects() snapshot and the task asks for the execution lock,
\* calling the evaluator at once when the lock is free; with the flag
\* clear the future returns and the wrapper runs finish_task.
CoopTick(t) ==
    /\ Pollable(t)
    /\ task[t].st \in {"spawned", "timer"}
    /\ IF running
       THEN /\ task' = [task EXCEPT ![t] =
                          [@ EXCEPT !.snapshot = AllObjects(objects),
                                    !.st = IF execution_lock = 0
                                           THEN "eval" ELSE "lockwait",
                                    !.job = IF execution_lock = 0
                                            THEN "pending" ELSE "none"]]
            /\ execution_lock' = IF execution_lock = 0 THEN t
                                 ELSE execution_lock
            /\ UNCHANGED <<running, active_tasks>>
       ELSE /\ task' = [task EXCEPT ![t] = Done(@, "ok")]
            /\ active_tasks' = finish_task(active_tasks, running).active
            /\ running' = finish_task(active_tasks, running).running
            /\ UNCHANGED execution_lock
    /\ UNCHANGED <<storeVars, inputVars, strategy, archive, objects, mgr, tasks, launched, runtime,
                   nativeVars>>

\* lock.lock().await completes: the task holds the lock and calls
\* execute_script with the payload built before.
CoopAcquire(t) ==
    /\ Pollable(t)
    /\ task[t].st = "lockwait"
    /\ execution_lock = 0
    /\ execution_lock' = t
    /\ task' = [task EXCEPT ![t] = [@ EXCEPT !.st = "eval", !.job = "pending"]]
    /\ UNCHANGED <<storeVars, inputVars, strategy, archive, objects, running, mgr, active_tasks,
                   tasks, launched, runtime, nativeVars>>

\* The promise executeLuau returns for a chunk's outcome: resolved with the
\* printed __HOST_RESULT__ text when the chunk returns, rejected when it
\* raises, pending for ever when it does not return.
executeLuau(outcome) ==
    IF outcome = "returned" THEN "resolved"
    ELSE IF outcome = "error" THEN "rejected"
    ELSE "hung"

\* A faulty __host_get_state: the change list of the tick before is kept.
host_get_state_keep(previous) == previous

\* LUAU_HELPERS __host_get_state: state.changes = {}, whatever the list
\* held after the tick before.
host_get_state(previous) == <<>>

\* The evaluator runs the payload: __host_run_script resumes the chunk's
\* coroutine (a new one when state.thread is nil) against the payload's
\* objects and __host_emit_result prints the encoded result. A call once
\* made runs whether or not the calling task is still alive.
LuauRun(t) ==
    /\ strategy = "coop"
    /\ task[t].job = "pending"
    /\ LET chunk == archive[task[t].entry].name
           at == Continuation(runtime, chunk)
           from == IF at = 0 THEN 1 ELSE at
           r == RunTick(ScriptOf(task[t]), from, task[t].snapshot,
                        host_get_state(task[t].result.changes.items),
                        MaxTickOps)
       IN /\ runtime' = (chunk :> r.thread) @@ runtime
          /\ task' = [task EXCEPT ![t] =
                        IF @.st = "done"
                        THEN [@ EXCEPT !.job = "none", !.snapshot = <<>>]
                        ELSE [@ EXCEPT !.job = executeLuau(r.outcome),
                                       !.snapshot = <<>>,
                                       !.result = [changes |-> Encode(r.changes),
                                                   wait |-> r.wait,
                                                   finished |-> r.finished,
                                                   ran |-> <<from, r.stop>>]]]
    /\ UNCHANGED <<storeVars, inputVars, strategy, archive, objects, running, mgr, active_tasks,
                   execution_lock, tasks, launched, nativeVars>>

\* The task's state once a result has been handled: the next tick is
\* scheduled by a timer while the flag is set and the script unfinished.
AfterResult(tk, flag, finished) ==
    IF flag /\ ~finished
    THEN [tk EXCEPT !.st = "timer", !.job = "none"]
    ELSE Done(tk, "ok")

\* execute_script's promise has settled and the task is polled: the lock
\* guard is dropped; a parsed result has its changes applied in order and
\* the task goes on to its timer or ends; a rejected promise, a result
\* that does not parse and a failed apply_change end the task with an
\* error. A task that ends runs finish_task.
CoopResult(t) ==
    /\ Pollable(t)
    /\ task[t].st = "eval"
    /\ task[t].job \in {"resolved", "rejected"}
    /\ execution_lock' = 0
    /\ LET parsed == task[t].job = "resolved" /\ ParseResult(task[t].result)
           a == ApplyChanges(objects, task[t].result.changes.items, 1)
           after == IF parsed /\ a.ok
                    THEN AfterResult(task[t], running, task[t].result.finished)
                    ELSE Done(task[t], "error")
       IN /\ objects' = IF parsed THEN a.objs ELSE objects
          /\ task' = [task EXCEPT ![t] = after]
          /\ active_tasks' = IF after.st = "done"
                             THEN finish_task(active_tasks, running).active
                             ELSE active_tasks
          /\ running' = IF after.st = "done"
                        THEN finish_task(active_tasks, running).running
                        ELSE running
    /\ UNCHANGED <<storeVars, inputVars, strategy, archive, mgr, tasks, launched, runtime, nativeVars>>

\* The aborted task is polled: Abortable returns Err(Aborted), the task
\* future is dropped (with the lock guard when it holds one) and the
\* wrapper runs finish_task.
CoopAborted(t) ==
    /\ strategy = "coop"
    /\ task[t].aborted
    /\ task[t].st # "done"
    /\ task' = [task EXCEPT ![t] = Done(@, "aborted")]
    /\ execution_lock' = IF execution_lock = t THEN 0 ELSE execution_lock
    /\ active_tasks' = finish_task(active_tasks, running).active
    /\ running' = finish_task(active_tasks, running).running
    /\ UNCHANGED <<storeVars, inputVars, strategy, archive, objects, mgr, tasks, launched, runtime,
                   nativeVars>>

----------------------------------------------------------------------------
(* The Scene Store under concurrent callers (data_model.rs): each method   *)
(* takes the RwLock's guard, works on the vector and drops the guard when  *)
(* it returns.                                                             *)

\* At most this many threads are inside DataModel methods at once (the
\* script threads and the render loop share one Arc<DataModel>).
MaxCallers == 2

Callers == 1..MaxCallers

\* The object vectors a session hands to from_objects and replace_objects:
\* what Scene::from_xml collects, one object per <object> node, the name
\* taken from the node as it is written.
Scenes ==
    {<<>>,
     <<SceneObject("Cube")>>,
     <<SceneObject("Cube"), SceneObject("Lamp")>>,
     <<SceneObject("Cube"), SceneObject("Cube")>>}

\* The names callers ask for; "Ghost" is in no scene.
CallNames == {"Cube", "Lamp", "Ghost"}

\* The setters the callers use, one Vec3 setter (set_position) and one f32
\* setter (set_fov), and the values they pass.
SetterFields == {"position", "fov"}

SetterValues(field) ==
    IF field \in VectorFields THEN {<<1, 2, 3>>, <<4, 5, 6>>}
    ELSE {<<60, 0, 0>>}

\* The machine words an assignment to the field stores: three f32 for a
\* Vec3, one for an f32.
Width(field) == IF field \in VectorFields THEN 3 ELSE 1

\* RwLock::new: no holder.
FreeLock == [writer |-> 0, readers |-> {}]

\* A thread outside every DataModel method.
Outside ==
    [op |-> "none", pc |-> "idle", name |-> "", field |-> "",
     value |-> <<0, 0, 0>>, new |-> <<>>, at |-> 0, k |-> 0, buf |-> <<>>,
     base |-> <<>>]

\* A faulty read(): it does not wait for the writer.
CanReadAlways(l) == TRUE

\* RwLock::read returns once no writer holds the lock.
CanRead(l) == l.writer = 0

\* A faulty write(): it does not wait for the holders.
CanWriteAlways(l) == TRUE

\* RwLock::write returns once nobody holds the lock.
CanWrite(l) == l.writer = 0 /\ l.readers = {}

\* A faulty assignment: the closure's store does not reach the object.
AssignNothing(objs, i, field, k, value) == objs

\* The k-th word of `obj.<field> = value` on the i-th object.
AssignComponent(objs, i, field, k, value) ==
    [objs EXCEPT ![i] = [@ EXCEPT ![field] = [@ EXCEPT ![k] = value[k]]]]

\* get: self.objects.read().
GetLock(p) ==
    /\ strategy = "store"
    /\ callers[p].pc = "idle"
    /\ CanRead(lock)
    /\ \E name \in CallNames :
         callers' = [callers EXCEPT ![p] =
                         [Outside EXCEPT !.op = "get", !.pc = "find",
                                         !.name = name]]
    /\ lock' = [lock EXCEPT !.readers = @ \cup {p}]
    /\ UNCHANGED <<inputVars, strategy, archive, objects, running, mgr,
                   nativeVars, coopVars>>

\* get: .iter().find(|object| object.name == name).
GetFind(p) ==
    /\ callers[p].op = "get"
    /\ callers[p].pc = "find"
    /\ LET i == Find(objects, callers[p].name) IN
       callers' = [callers EXCEPT ![p].at = i,
                                  ![p].pc = IF i = 0 THEN "unlock"
                                            ELSE "clone"]
    /\ UNCHANGED <<inputVars, lock, strategy, archive, objects, running, mgr,
                   nativeVars, coopVars>>

\* get: .cloned(), the copy of the object found. Without the guard's
\* protection the vector may have lost the object meanwhile.
GetClone(p) ==
    /\ callers[p].op = "get"
    /\ callers[p].pc = "clone"
    /\ callers' = [callers EXCEPT
                       ![p].buf = IF callers[p].at <= Len(objects)
                                  THEN <<objects[callers[p].at]>>
                                  ELSE <<>>,
                       ![p].pc = "unlock"]
    /\ UNCHANGED <<inputVars, lock, strategy, archive, objects, running, mgr,
                   nativeVars, coopVars>>

\* all_objects: self.objects.read(), and Vec::clone reads the length.
AllLock(p) ==
    /\ strategy = "store"
    /\ callers[p].pc = "idle"
    /\ CanRead(lock)
    /\ callers' = [callers EXCEPT ![p] =
                       [Outside EXCEPT !.op = "all",
                                       !.pc = IF Len(objects) = 0
                                              THEN "unlock" ELSE "clone",
                                       !.at = Len(objects)]]
    /\ lock' = [lock EXCEPT !.readers = @ \cup {p}]
    /\ UNCHANGED <<inputVars, strategy, archive, objects, running, mgr,
                   nativeVars, coopVars>>

\* all_objects: Vec::clone copies the next object.
AllClone(p) ==
    /\ callers[p].op = "all"
    /\ callers[p].pc = "clone"
    /\ LET n == Len(callers[p].buf) + 1
           more == n <= Min(callers[p].at, Len(objects))
           buf == IF more THEN Append(callers[p].buf, objects[n])
                  ELSE callers[p].buf
       IN callers' = [callers EXCEPT
                          ![p].buf = buf,
                          ![p].pc = IF Len(buf) >= Min(callers[p].at,
                                                       Len(objects))
                                    THEN "unlock" ELSE "clone"]
    /\ UNCHANGED <<inputVars, lock, strategy, archive, objects, running, mgr,
                   nativeVars, coopVars>>

\* update, called by set_<field>: let mut guard = self.objects.write().
\* base records the store the guard was taken on.
UpdateLock(p) ==
    /\ strategy = "store"
    /\ callers[p].pc = "idle"
    /\ CanWrite(lock)
    /\ \E name \in CallNames, field \in SetterFields :
         \E value \in SetterValues(field) :
           callers' = [callers EXCEPT ![p] =
                           [Outside EXCEPT !.op = "set", !.pc = "find",
                                           !.name = name, !.field = field,
                                           !.value = value,
                                           !.base = objects]]
    /\ lock' = [lock EXCEPT !.writer = p]
    /\ UNCHANGED <<inputVars, strategy, archive, objects, running, mgr,
                   nativeVars, coopVars>>

\* update: guard.iter_mut().find(|object| object.name == name)?, which
\* returns None from update when there is no such object.
UpdateFind(p) ==
    /\ callers[p].op = "set"
    /\ callers[p].pc = "find"
    /\ LET i == Find(objects, callers[p].name) IN
       callers' = [callers EXCEPT ![p].at = i,
                                  ![p].k = IF i = 0 THEN 0 ELSE 1,
                                  ![p].pc = IF i = 0 THEN "unlock"
                                            ELSE "assign"]
    /\ UNCHANGED <<inputVars, lock, strategy, archive, objects, running, mgr,
                   nativeVars, coopVars>>

\* update: Some(updater(object)), the closure's assignment word by word.
UpdateAssign(p) ==
    /\ callers[p].op = "set"
    /\ callers[p].pc = "assign"
    /\ callers[p].at <= Len(objects)
    /\ objects' = AssignComponent(objects, callers[p].at, callers[p].field,
                                  callers[p].k, callers[p].value)
    /\ callers' = [callers EXCEPT
                       ![p].k = IF @ = Width(callers[p].field) THEN @
                                ELSE @ + 1,
                       ![p].pc = IF callers[p].k = Width(callers[p].field)
                                 THEN "unlock" ELSE "assign"]
    /\ UNCHANGED <<inputVars, lock, strategy, archive, running, mgr, nativeVars,
                   coopVars>>

\* replace_objects: self.objects.write().
ReplaceLock(p) ==
    /\ strategy = "store"
    /\ callers[p].pc = "idle"
    /\ CanWrite(lock)
    /\ \E new \in Scenes :
         callers' = [callers EXCEPT ![p] =
                         [Outside EXCEPT !.op = "replace", !.pc = "assign",
                                         !.new = new, !.base = objects]]
    /\ lock' = [lock EXCEPT !.writer = p]
    /\ UNCHANGED <<inputVars, strategy, archive, objects, running, mgr,
                   nativeVars, coopVars>>

\* replace_objects: *guard = objects, the vector is exchanged.
ReplaceAssign(p) ==
    /\ callers[p].op = "replace"
    /\ callers[p].pc = "assign"
    /\ objects' = callers[p].new
    /\ callers' = [callers EXCEPT ![p].pc = "unlock"]
    /\ UNCHANGED <<inputVars, lock, strategy, archive, running, mgr, nativeVars,
                   coopVars>>

\* set_<field>: update(..).is_some(), the bool the setter returns.
SetterResult(c) == c.at # 0

\* The end of a method: the guard is dropped and the caller has the
\* result.
Return(p) ==
    /\ callers[p].pc = "unlock"
    /\ lock' = [writer |-> IF lock.writer = p THEN 0 ELSE lock.writer,
                readers |-> lock.readers \ {p}]
    /\ callers' = [callers EXCEPT ![p] = Outside]
    /\ UNCHANGED <<inputVars, strategy, archive, objects, running, mgr,
                   nativeVars, coopVars>>

----------------------------------------------------------------------------
(* The input state and the input query (input.rs, bindings.rs). A name is  *)
(* the sequence of its characters; a character outside ASCII, written      *)
(* "e-acute", takes two bytes in UTF-8.                                    *)

UpperCase == <<"A", "B", "C", "D", "E", "F", "G", "H", "I", "J", "K", "L", "M", "N", "O", "P", "Q", "R", "S", "T", "U", "V", "W", "X", "Y", "Z">>
LowerCase == <<"a", "b", "c", "d", "e", "f", "g", "h", "i", "j", "k", "l", "m", "n", "o", "p", "q", "r", "s", "t", "u", "v", "w", "x", "y", "z">>
DigitChars == <<"0", "1", "2", "3", "4", "5", "6", "7", "8", "9">>

Range(f) == {f[i] : i \in DOMAIN f}
IndexIn(f, c) == CHOOSE i \in DOMAIN f : f[i] = c

\* char::len_utf8 for the characters of the model.
len_utf8(c) ==
    IF c \in Range(UpperCase) \cup Range(LowerCase) \cup Range(DigitChars)
              \cup {"+", "-", " "}
    THEN 1 ELSE 2

is_ascii_alphabetic(c) == c \in Range(UpperCase) \cup Range(LowerCase)
is_ascii_digit(c) == c \in Range(DigitChars)

to_ascii_uppercase(c) ==
    IF c \in Range(LowerCase) THEN UpperCase[IndexIn(LowerCase, c)] ELSE c

to_ascii_lowercase(c) ==
    IF c \in Range(UpperCase) THEN LowerCase[IndexIn(UpperCase, c)] ELSE c

\* str::len: the length in bytes.
RECURSIVE ByteLen(_)
ByteLen(name) ==
    IF name = <<>> THEN 0 ELSE len_utf8(Head(name)) + ByteLen(Tail(name))

\* str::is_char_boundary(n).
IsCharBoundary(name, n) ==
    \E k \in 0..Len(name) : ByteLen(SubSeq(name, 1, k)) = n

\* The number of characters in the first n bytes, n a char boundary.
CharsIn(name, n) ==
    CHOOSE k \in 0..Len(name) : ByteLen(SubSeq(name, 1, k)) = n

\* str::eq_ignore_ascii_case.
eq_ignore_ascii_case(a, b) ==
    /\ Len(a) = Len(b)
    /\ \A i \in 1..Len(a) : to_ascii_lowercase(a[i]) = to_ascii_lowercase(b[i])

\* The value of a string of digits read as a decimal number.
RECURSIVE DecimalValue(_)
DecimalValue(digits) ==
    IF digits = <<>> THEN 0
    ELSE 10 * DecimalValue(SubSeq(digits, 1, Len(digits) - 1))
           + (IndexIn(DigitChars, digits[Len(digits)]) - 1)

\* str::parse::<u8>: an optional "+", then one or more digits, the value
\* at most 255.
parse_u8(text) ==
    LET digits == IF text # <<>> /\ Head(text) = "+" THEN Tail(text) ELSE text
    IN IF /\ digits # <<>>
          /\ \A i \in 1..Len(digits) : is_ascii_digit(digits[i])
          /\ DecimalValue(digits) <= 255
       THEN [ok |-> TRUE, v |-> DecimalValue(digits)]
       ELSE [ok |-> FALSE, v |-> 0]

\* KeyCode and MouseButton values.
Named(key) == [kind |-> "Named", name |-> key, n |-> 0]
Character(ch) == [kind |-> "Character", name |-> ch, n |-> 0]
Digit(d) == [kind |-> "Digit", name |-> "", n |-> d]
Function(index) == [kind |-> "Function", name |-> "", n |-> index]
MouseButton(index) == [kind |-> "Mouse", name |-> "", n |-> index]
NoInput == [kind |-> "None", name |-> "", n |-> 0]

\* The match of parse_named_key: the names and the NamedKey of each.
NamedKeyTable ==
    { <<<<"S", "p", "a", "c", "e">>, "Space">>,
      <<<<"E", "n", "t", "e", "r">>, "Enter">>,
      <<<<"R", "e", "t", "u", "r", "n">>, "Enter">>,
      <<<<"T", "a", "b">>, "Tab">>,
      <<<<"L", "e", "f", "t">>, "Left">>,
      <<<<"R", "i", "g", "h", "t">>, "Right">>,
      <<<<"U", "p">>, "Up">>,
      <<<<"D", "o", "w", "n">>, "Down">>,
      <<<<"E", "s", "c", "a", "p", "e">>, "Escape">>,
      <<<<"E", "s", "c">>, "Escape">>,
      <<<<"B", "a", "c", "k", "s", "p", "a", "c", "e">>, "Backspace">>,
      <<<<"H", "o", "m", "e">>, "Home">>,
      <<<<"E", "n", "d">>, "End">>,
      <<<<"P", "a", "g", "e", "U", "p">>, "PageUp">>,
      <<<<"P", "a", "g", "e", "D", "o", "w", "n">>, "PageDown">>,
      <<<<"L", "e", "f", "t", "S", "h", "i", "f", "t">>, "LeftShift">>,
      <<<<"L", "S", "h", "i", "f", "t">>, "LeftShift">>,
      <<<<"R", "i", "g", "h", "t", "S", "h", "i", "f", "t">>, "RightShift">>,
      <<<<"R", "S", "h", "i", "f", "t">>, "RightShift">>,
      <<<<"L", "e", "f", "t", "C", "t", "r", "l">>, "LeftCtrl">>,
      <<<<"L", "C", "o", "n", "t", "r", "o", "l">>, "LeftCtrl">>,
      <<<<"R", "i", "g", "h", "t", "C", "t", "r", "l">>, "RightCtrl">>,
      <<<<"R", "C", "o", "n", "t", "r", "o", "l">>, "RightCtrl">>,
      <<<<"L", "e", "f", "t", "A", "l", "t">>, "LeftAlt">>,
      <<<<"L", "A", "l", "t">>, "LeftAlt">>,
      <<<<"R", "i", "g", "h", "t", "A", "l", "t">>, "RightAlt">>,
      <<<<"R", "A", "l", "t">>, "RightAlt">> }

\* parse_named_key: the exact name, or None.
parse_named_key(name) ==
    IF \E e \in NamedKeyTable : e[1] = name
    THEN Named((CHOOSE e \in NamedKeyTable : e[1] = name)[2])
    ELSE NoInput

\* KeyCode::from_name.
from_name(name) ==
    IF parse_named_key(name) # NoInput THEN parse_named_key(name)
    ELSE IF ByteLen(name) = 1 /\ is_ascii_alphabetic(name[1])
    THEN Character(to_ascii_uppercase(name[1]))
    ELSE IF ByteLen(name) = 1 /\ is_ascii_digit(name[1])
    THEN Digit(IndexIn(DigitChars, name[1]) - 1)
    ELSE IF name # <<>> /\ name[1] \in {"F", "f"}
    THEN LET index == parse_u8(Tail(name))
         IN IF index.ok /\ index.v >= 1 /\ index.v <= 25
            THEN Function(index.v) ELSE NoInput
    ELSE NoInput

\* parse_mouse_button: name[..5] panics when byte 5 is inside a character;
\* "mouse" in any case, then nothing (the left button) or a u8, less one.
parse_mouse_button(name) ==
    IF ByteLen(name) < 5 THEN [panic |-> FALSE, button |-> NoInput]
    ELSE IF ~IsCharBoundary(name, 5) THEN [panic |-> TRUE, button |-> NoInput]
    ELSE LET k == CharsIn(name, 5)
             suffix == SubSeq(name, k + 1, Len(name))
             index == parse_u8(suffix)
         IN IF ~eq_ignore_ascii_case(SubSeq(name, 1, k),
                                     <<"m", "o", "u", "s", "e">>)
            THEN [panic |-> FALSE, button |-> NoInput]
            ELSE IF suffix = <<>>
            THEN [panic |-> FALSE, button |-> MouseButton(0)]
            ELSE IF ~index.ok THEN [panic |-> FALSE, button |-> NoInput]
            ELSE [panic |-> FALSE,
                  button |-> MouseButton(IF index.v = 0 THEN 0
                                         ELSE index.v - 1)]

\* parse_input_name: a mouse button, else a key, else None.
parse_input_name(name) ==
    LET m == parse_mouse_button(name) IN
    IF m.panic \/ m.button # NoInput THEN m
    ELSE [panic |-> FALSE, button |-> from_name(name)]

\* InputState::is_key_down_by_name: "true" or "false", or "panic".
is_key_down_by_name(state, name) ==
    LET parsed == parse_input_name(name) IN
    IF parsed.panic THEN "panic"
    ELSE IF parsed.button = NoInput THEN "false"
    ELSE IF parsed.button.kind = "Mouse"
    THEN IF parsed.button \in state.mouse_buttons THEN "true" ELSE "false"
    ELSE IF parsed.button \in state.keys THEN "true" ELSE "false"

\* The arguments scripts call GetKeyDown with: a string, or a value that
\* is no string (a number, nil).
StringArg(name) == [kind |-> "string", s |-> name]
OtherArg(kind) == [kind |-> kind, s |-> <<>>]

\* string_argument: the first string among the arguments, or None.
string_argument(arg) ==
    IF arg.kind = "string" THEN [some |-> TRUE, s |-> arg.s]
    ELSE [some |-> FALSE, s |-> <<>>]

\* The keys and buttons the window's events press and release.
Keys == {Named("Space"), Character("A"), Function(1), Digit(1)}
Buttons == {MouseButton(0), MouseButton(1)}

\* The names scripts ask for.
QueryNames ==
    { <<>>,
      <<"S", "p", "a", "c", "e">>,
      <<"s", "p", "a", "c", "e">>,
      <<"S", "P", "A", "C", "E">>,
      <<"a">>,
      <<"A">>,
      <<"q">>,
      <<"F", "1">>,
      <<"f", "1">>,
      <<"1">>,
      <<"M", "o", "u", "s", "e">>,
      <<"m", "o", "u", "s", "e">>,
      <<"M", "o", "u", "s", "e", "1">>,
      <<"M", "o", "u", "s", "e", "2">>,
      <<"m", "o", "u", "s", "e", "2">>,
      <<"M", "O", "U", "S", "E", "2">>,
      <<"J", "u", "m", "p">>,
      <<"M", "o", "u", "s", "e", "9">>,
      <<"e-acute">>,
      <<"m", "o", "u", "s", "e-acute">>,
      <<"e-acute", "e-acute", "e-acute">> }

QueryArgs ==
    {StringArg(name) : name \in QueryNames}
        \cup {OtherArg("number"), OtherArg("nil")}

\* InputState::set_key_down.
set_key_down(key) ==
    /\ strategy = "input"
    /\ input' = [input EXCEPT !.keys = @ \cup {key}]
    /\ UNCHANGED <<query, storeVars, strategy, archive, objects, running, mgr,
                   nativeVars, coopVars>>

\* InputState::set_key_up.
set_key_up(key) ==
    /\ strategy = "input"
    /\ input' = [input EXCEPT !.keys = @ \ {key}]
    /\ UNCHANGED <<query, storeVars, strategy, archive, objects, running, mgr,
                   nativeVars, coopVars>>

\* InputState::set_mouse_button_down.
set_mouse_button_down(button) ==
    /\ strategy = "input"
    /\ input' = [input EXCEPT !.mouse_buttons = @ \cup {button}]
    /\ UNCHANGED <<query, storeVars, strategy, archive, objects, running, mgr,
                   nativeVars, coopVars>>

\* InputState::set_mouse_button_up.
set_mouse_button_up(button) ==
    /\ strategy = "input"
    /\ input' = [input EXCEPT !.mouse_buttons = @ \ {button}]
    /\ UNCHANGED <<query, storeVars, strategy, archive, objects, running, mgr,
                   nativeVars, coopVars>>

\* The closure of service.input.GetKeyDown: false without a string
\* argument, else is_key_down_by_name.
GetKeyDown(arg) ==
    /\ strategy = "input"
    /\ query' = [arg |-> arg,
                 by |-> "native",
                 result |-> IF string_argument(arg).some
                            THEN is_key_down_by_name(input,
                                                     string_argument(arg).s)
                            ELSE "false"]
    /\ UNCHANGED <<input, storeVars, strategy, archive, objects, running, mgr,
                   nativeVars, coopVars>>

\* InputState::new, and no query made yet.
NoKeys == [keys |-> {}, mouse_buttons |-> {}]
NoQuery == [arg |-> OtherArg("nil"), by |-> "none", result |-> "none"]

\* named_key_aliases: the names the snapshot lists for a named key.
named_key_aliases(key) == {e[1] : e \in {a \in NamedKeyTable : a[2] = key}}

\* collect_key_names over input_snapshot_keys: the aliases of each named
\* key held, the letter of each Character('A'..'Z'), the digit of each
\* Digit(0..9) and F<index> of each Function(1..12).
collect_key_names(state) ==
    LET decimal(n) == IF n < 10 THEN <<DigitChars[n + 1]>>
                      ELSE <<DigitChars[(n \div 10) + 1],
                             DigitChars[(n % 10) + 1]>>
    IN UNION {IF key.kind = "Named" THEN named_key_aliases(key.name)
              ELSE IF key.kind = "Character"
              THEN IF key.name \in Range(UpperCase) THEN {<<key.name>>} ELSE {}
              ELSE IF key.kind = "Digit"
              THEN IF key.n \in 0..9 THEN {<<DigitChars[key.n + 1]>>} ELSE {}
              ELSE IF key.n \in 1..12 THEN {<<"F">> \o decimal(key.n)} ELSE {}
              : key \in state.keys}

\* collect_mouse_buttons over input_snapshot_mouse_buttons: Mouse<index + 1>
\* of each button 0..2 held, and Mouse for button 0.
collect_mouse_buttons(state) ==
    UNION {IF button.n \notin 0..2 THEN {}
           ELSE {<<"M", "o", "u", "s", "e", DigitChars[button.n + 2]>>}
                \cup IF button.n = 0 THEN {<<"M", "o", "u", "s", "e">>} ELSE {}
           : button \in state.mouse_buttons}

\* emit_input_snapshot: the tables __input.keys and __input.buttons of the
\* payload.
emit_input_snapshot(state) ==
    [keys |-> collect_key_names(state),
     buttons |-> collect_mouse_buttons(state)]

\* LUAU_HELPERS service.input:GetKeyDown(name), called in a tick whose
\* payload holds the snapshot of the input state: false for a name that
\* is no string, else state.input.keys[name] or false.
CoopGetKeyDown(arg) ==
    /\ strategy = "input"
    /\ query' = [arg |-> arg,
                 by |-> "coop",
                 result |-> IF arg.kind # "string" THEN "false"
                            ELSE IF arg.s \in emit_input_snapshot(input).keys
                            THEN "true" ELSE "false"]
    /\ UNCHANGED <<input, storeVars, strategy, archive, objects, running, mgr,
                   nativeVars, coopVars>>

----------------------------------------------------------------------------
(* The specification. *)

Init ==
    /\ strategy \in {"native", "coop"}
    /\ archive \in Archives
    /\ objects = InitialObjects
    /\ running = FALSE
    /\ threads = <<>>
    /\ thr = <<>>
    /\ mgr = [pc |-> "idle", op |-> "none", ret |-> "none", count |-> 0,
              errors |-> <<>>, starts |-> 0, run |-> 0, stopped |-> FALSE]
    /\ active_tasks = 0
    /\ execution_lock = 0
    /\ tasks = <<>>
    /\ launched = 0
    /\ task = <<>>
    /\ runtime = <<>>
    /\ lock = FreeLock
    /\ callers = [p \in Callers |-> Outside]
    /\ input = NoKeys
    /\ query = NoQuery

Next ==
    \/ NativeStart
    \/ NativeStop
    \/ NativeWait
    \/ NativeJoin
    \/ \E t \in 1..Len(thr) : NativeLoad(t)
    \/ \E t \in 1..Len(thr) : NativeHook(t)
    \/ \E t \in 1..Len(thr) : NativeSet(t)
    \/ \E t \in 1..Len(thr) : NativeWaitCall(t)
    \/ \E t \in 1..Len(thr) : NativeWaitCheck(t)
    \/ \E t \in 1..Len(thr) : NativeWaitSleep(t)
    \/ \E t \in 1..Len(thr) : NativeJump(t)
    \/ \E t \in 1..Len(thr) : NativeError(t)
    \/ \E t \in 1..Len(thr) : NativeFinish(t)
    \/ CoopStart
    \/ CoopStop
    \/ CoopWait
    \/ \E t \in 1..Len(task) : CoopTick(t)
    \/ \E t \in 1..Len(task) : CoopAcquire(t)
    \/ \E t \in 1..Len(task) : LuauRun(t)
    \/ \E t \in 1..Len(task) : CoopResult(t)
    \/ \E t \in 1..Len(task) : CoopAborted(t)

Spec == Init /\ [][Next]_vars

\* One step of the native script thread t (the body of run_script_thread).
ThreadStep(t) ==
    \/ NativeLoad(t)
    \/ NativeHook(t)
    \/ NativeSet(t)
    \/ NativeWaitCall(t)
    \/ NativeWaitCheck(t)
    \/ NativeWaitSleep(t)
    \/ NativeJump(t)
    \/ NativeError(t)
    \/ NativeFinish(t)

\* The native strategy under the operating system's scheduler: a spawned
\* thread that can take a step takes one, and handle.join() returns once
\* the threads have ended. The caller is not obliged to make any call.
FairSpec ==
    /\ Spec
    /\ \A t \in 1..(2 * MaxStarts) : WF_vars(t <= Len(thr) /\ ThreadStep(t))
    /\ WF_vars(NativeJoin)

\* The Scene Store on its own: DataModel::from_objects on any scene, then
\* any number of threads calling its methods in any interleaving.
StoreInit ==
    /\ strategy = "store"
    /\ archive = <<>>
    /\ objects \in Scenes
    /\ running = FALSE
    /\ threads = <<>>
    /\ thr = <<>>
    /\ mgr = [pc |-> "idle", op |-> "none", ret |-> "none", count |-> 0,
              errors |-> <<>>, starts |-> 0, run |-> 0, stopped |-> FALSE]
    /\ active_tasks = 0
    /\ execution_lock = 0
    /\ tasks = <<>>
    /\ launched = 0
    /\ task = <<>>
    /\ runtime = <<>>
    /\ lock = FreeLock
    /\ callers = [p \in Callers |-> Outside]
    /\ input = NoKeys
    /\ query = NoQuery

StoreNext ==
    \/ \E p \in Callers : GetLock(p)
    \/ \E p \in Callers : GetFind(p)
    \/ \E p \in Callers : GetClone(p)
    \/ \E p \in Callers : AllLock(p)
    \/ \E p \in Callers : AllClone(p)
    \/ \E p \in Callers : UpdateLock(p)
    \/ \E p \in Callers : UpdateFind(p)
    \/ \E p \in Callers : UpdateAssign(p)
    \/ \E p \in Callers : ReplaceLock(p)
    \/ \E p \in Callers : ReplaceAssign(p)
    \/ \E p \in Callers : Return(p)

StoreSpec == StoreInit /\ [][StoreNext]_vars

\* The input state on its own: the window's events press and release keys
\* and buttons, and a script queries names.
InputInit ==
    /\ strategy = "input"
    /\ archive = <<>>
    /\ objects = InitialObjects
    /\ running = FALSE
    /\ threads = <<>>
    /\ thr = <<>>
    /\ mgr = [pc |-> "idle", op |-> "none", ret |-> "none", count |-> 0,
              errors |-> <<>>, starts |-> 0, run |-> 0, stopped |-> FALSE]
    /\ active_tasks = 0
    /\ execution_lock = 0
    /\ tasks = <<>>
    /\ launched = 0
    /\ task = <<>>
    /\ runtime = <<>>
    /\ lock = FreeLock
    /\ callers = [p \in Callers |-> Outside]
    /\ input = NoKeys
    /\ query = NoQuery

InputNext ==
    \/ \E key \in Keys : set_key_down(key)
    \/ \E key \in Keys : set_key_up(key)
    \/ \E button \in Buttons : set_mouse_button_down(button)
    \/ \E button \in Buttons : set_mouse_button_up(button)
    \/ \E arg \in QueryArgs : GetKeyDown(arg)
    \/ \E arg \in QueryArgs : CoopGetKeyDown(arg)

InputSpec == InputInit /\ [][InputNext]_vars

----------------------------------------------------------------------------
(* Properties of the specification (spec.md), by claim.                    *)

\* The value a script hands to a setter is well formed for the field: a
\* Vector3 for position, rotation and scale, a Color3 for color, a number
\* for fov and intensity.
WellFormed(field, val) ==
    \/ field \in {"position", "rotation", "scale"} /\ val.kind = "Vector3"
    \/ field = "color" /\ val.kind = "Color3"
    \/ field \in {"fov", "intensity"} /\ val.kind = "number"

\* The value DataModel::get must show after the write: the written value,
\* a colour with its 0..255 channels brought to 0..1.
Stored(o) ==
    IF o.field = "color"
    THEN <<o.val.v[1] \div 255, o.val.v[2] \div 255, o.val.v[3] \div 255>>
    ELSE o.val.v

\* What DataModel::get shows for the field a write addresses.
Seen(objs, o) == Get(objs, o.name).obj[o.field]

\* A script without loops and pcall: it executes its operations in order.
Straight(script) ==
    \A i \in 1..Len(script) :
        script[i].op \in {"set", "wait", "error"} /\ script[i].h = 0

\* The positions in a..b of a script's well-formed writes to objects that
\* exist.
WritesOf(script, a, b) ==
    {i \in a..b : /\ i <= Len(script)
                  /\ script[i].op = "set"
                  /\ Get(objects, script[i].name).some
                  /\ WellFormed(script[i].field, script[i].val)}

\* The writes of WritesOf that no later write of the range overwrites.
LastWritesOf(script, a, b) ==
    {i \in WritesOf(script, a, b) :
        \A j \in WritesOf(script, a, b) :
            (script[j].name = script[i].name /\ script[j].field = script[i].field)
                => j <= i}

\* The values other threads of the same start() write to the same field.
RivalValues(t, o) ==
    UNION {LET s == ScriptOf(thr[u]) IN
           {Stored(s[j]) : j \in {j \in WritesOf(s, 1, Len(s)) :
                                    /\ s[j].name = o.name
                                    /\ s[j].field = o.field}} :
           u \in {u \in 1..Len(thr) : u # t /\ thr[u].run = thr[t].run}}

\* Native: once wait() has returned, every write of a script of the last
\* start() that ran to its end is what get shows (unless a sibling script
\* wrote the same field), and the number start() returned counts the script.
NativeWritesVisible ==
    (strategy = "native" /\ mgr.pc = "idle" /\ mgr.op = "wait") =>
        \A t \in 1..Len(thr) :
            (/\ thr[t].run = mgr.run
             /\ thr[t].res = "ok"
             /\ Straight(ScriptOf(thr[t]))) =>
                LET s == ScriptOf(thr[t]) IN
                /\ \A i \in LastWritesOf(s, 1, Len(s)) :
                       Seen(objects, s[i]) \in {Stored(s[i])} \cup RivalValues(t, s[i])
                /\ mgr.count # -1 =>
                       mgr.count = Cardinality({u \in 1..Len(thr) :
                                                  thr[u].run = mgr.run})

\* Cooperative: the step in which a task has handled a tick's result shows
\* every write the tick made in the store, and the number start() returned
\* counts the task.
CoopTickVisible ==
    \A t \in 1..Len(task) :
        (/\ strategy = "coop"
         /\ task[t].st = "eval"
         /\ task'[t].st \in {"timer", "done"}
         /\ task'[t].res \in {"none", "ok"}
         /\ Straight(ScriptOf(task[t]))) =>
            LET s == ScriptOf(task[t])
                ran == task[t].result.ran
            IN /\ \A i \in LastWritesOf(s, ran[1], ran[2] - 1) :
                      Seen(objects', s[i]) = Stored(s[i])
               /\ (task[t].run = mgr.run /\ mgr.count # -1) =>
                      mgr.count = Cardinality({u \in 1..Len(task) :
                                                 task[u].run = mgr.run})

C2_StopErrOnlyForFailures ==
    (/\ strategy = "native"
     /\ mgr.pc = "idle" /\ mgr.op = "stop" /\ mgr.ret = "err") =>
        \E i \in 1..Len(mgr.errors) :
            mgr.errors[i] \notin {"stopped", "interrupted"}

\* C3: under fair scheduling of the script threads, every call of the
\* native stop() returns: the threads observe the cleared flag at the next
\* hook or wait slice, exit, and the joins complete.
C3_StopTerminates ==
    (strategy = "native" /\ mgr.pc = "join" /\ mgr.op = "stop")
        ~> (mgr.pc = "idle")

\* C4: native strategy: while the running flag is false no script changes
\* the Scene Store (the binding layer checks the flag before it writes).
C4_NoWriteWhileFlagClear ==
    [][(strategy = "native" /\ ~running) => objects' = objects]_vars

\* The runs (start() numbers) of the units that take part in a step.
ActingRuns ==
    {thr[t].run : t \in {t \in 1..Len(thr) : thr'[t] # thr[t]}}
        \cup {task[t].run : t \in {t \in 1..Len(task) : task'[t] # task[t]}}

\* The tasks that begin a tick in a step: their call of the evaluator is
\* made.
TickBeginners ==
    {t \in 1..Len(task) : task[t].job # "pending" /\ task'[t].job = "pending"}

C6_WaitInterrupted ==
    [][\A t \in 1..Len(thr) :
          (strategy = "native" /\ thr[t].st \in {"check", "sleep"} /\ ~running)
              => ~(thr'[t].st = "exec" /\ thr'[t].pc = thr[t].pc + 1)]_vars

\* Every unit of the run spawned last has finished.
RunFinished ==
    /\ \A t \in 1..Len(thr) : thr[t].run = mgr.run => thr[t].st = "exited"
    /\ \A t \in 1..Len(task) : task[t].run = mgr.run => task[t].st = "done"

\* C7: when the manager's wait() has returned, every script launched by
\* the preceding start() has finished; and wait() does not clear the
\* running flag while a script is still executing.
C7_WaitMeansFinished ==
    /\ []((mgr.pc = "idle" /\ mgr.op = "wait") => RunFinished)
    /\ [][(mgr'.op = "wait" /\ running /\ ~running') => RunFinished]_vars

\* The number of archive entries whose name begins with "scripts/".
ScriptCount ==
    Cardinality({i \in 1..Len(archive) : archive[i].name[1] = "scripts"})

\* C8: with no "scripts/" entry in the archive, start() returns 0, leaves
\* the running flag false and starts no unit, and every later stop() and
\* wait() returns Ok and changes nothing.
C8_NoScriptsNoRun ==
    ScriptCount = 0 =>
        /\ ~running
        /\ thr = <<>> /\ threads = <<>>
        /\ task = <<>> /\ tasks = <<>>
        /\ active_tasks = 0 /\ launched = 0
        /\ objects = InitialObjects
        /\ mgr.count = 0
        /\ mgr.ret \in {"none", "ok"}

\* start() and then stop() have returned on an archive that holds only a
\* mesh.
C8_Witness ==
    /\ archive = <<EntryMesh>>
    /\ mgr.starts = 1
    /\ mgr.pc = "idle" /\ mgr.op = "stop" /\ mgr.ret = "ok"

\* The units spawned by start() number r, after the step.
UnitsOf(r) ==
    IF strategy = "native"
    THEN {t \in 1..Len(thr') : thr'[t].run = r}
    ELSE {t \in 1..Len(task') : task'[t].run = r}

\* The archive entry unit t runs, after the step.
EntryOf(t) == IF strategy = "native" THEN thr'[t].entry ELSE task'[t].entry

\* The step in which a call of start() returns Ok.
StartReturnsOk ==
    /\ mgr'.pc = "idle" /\ mgr'.op = "start" /\ mgr'.ret = "ok"
    /\ \/ mgr.pc = "join" /\ mgr.op = "start"
       \/ mgr'.starts = mgr.starts + 1

\* C9: with at least one "scripts/" entry, a start() that returns Ok has
\* set the running flag, has spawned exactly one unit per such entry, and
\* returns their number.
C9_StartSpawnsOnePerEntry ==
    [][(StartReturnsOk /\ ScriptCount >= 1) =>
          /\ running'
          /\ mgr'.count = ScriptCount
          /\ Cardinality(UnitsOf(mgr'.run)) = ScriptCount
          /\ \A i \in 1..Len(archive) :
                archive[i].name[1] = "scripts" =>
                    Cardinality({t \in UnitsOf(mgr'.run) : EntryOf(t) = i}) = 1
          /\ Len(threads') + Len(tasks') = ScriptCount]_vars

\* start() has returned 2 on an archive with two scripts, the flag is set
\* and both units are there.
C9_Witness ==
    /\ ScriptCount = 2
    /\ mgr.pc = "idle" /\ mgr.op = "start" /\ mgr.ret = "ok"
    /\ mgr.count = 2
    /\ running
    /\ Len(thr) + Len(task) = 2

\* C10: units started by two different start() calls of one manager never
\* exist at the same time: every unit that has not ended belongs to the
\* same start().
C10_RunsNeverCoexist ==
    /\ \A t, u \in 1..Len(thr) :
          (thr[t].st # "exited" /\ thr[u].st # "exited") => thr[t].run = thr[u].run
    /\ \A t, u \in 1..Len(task) :
          (task[t].st # "done" /\ task[u].st # "done") => task[t].run = task[u].run

\* No script of the manager is active: every thread has ended and every
\* task has run its teardown.
NoScriptActive ==
    /\ \A t \in 1..Len(thr) : thr[t].st = "exited"
    /\ \A t \in 1..Len(task) : task[t].st = "done"

\* C11: the running flag is false whenever no script of the manager is
\* active: after the last script of a run has completed (also when wait()
\* has returned, with or without script errors) and after stop().
C11_FlagFalseWhenNoScript ==
    (mgr.pc = "idle" /\ NoScriptActive) => ~running

\* C12: cooperative strategy: the running flag goes from true to false
\* only in a call of stop() (start() included) or when the last task of
\* the current run that was still active retires; the teardown of a task
\* of an earlier run never clears it while a task of the current run is
\* active.
C12_FlagClearedOnlyByLastTask ==
    [][(strategy = "coop" /\ running /\ ~running' /\ mgr' = mgr) =>
          \A t \in 1..Len(task') :
              task'[t].run = mgr.run => task'[t].st = "done"]_vars

\* Thread t fails with a runtime error in the step.
ThreadFails(t) == thr[t].st # "exited" /\ thr'[t].res = "runtime"

\* Task t fails with an error of its script's tick in the step.
TaskFails(t) == task[t].st # "done" /\ task'[t].res = "error"

\* C13: a script that fails with a runtime error does not stop its
\* siblings: the step in which it fails leaves the other scripts of the
\* run as they are, and it does not clear the running flag while another
\* script of the run is still active.
C13_FailureLeavesSiblings ==
    [][/\ \A t \in 1..Len(thr) :
             ThreadFails(t) =>
                 /\ \A u \in 1..Len(thr) : u # t => thr'[u] = thr[u]
                 /\ (running /\ \E u \in 1..Len(thr) :
                        u # t /\ thr[u].run = thr[t].run /\ thr[u].st # "exited")
                        => running'
       /\ \A t \in 1..Len(task) :
             TaskFails(t) =>
                 /\ \A u \in 1..Len(task) : u # t => task'[u] = task[u]
                 /\ (running /\ \E u \in 1..Len(task) :
                        u # t /\ task[u].run = task[t].run /\ task[u].st # "done")
                        => running']_vars

\* The step in which a call of start() returns after it has gone on to
\* launch the scripts (the native start() returns earlier, with the error
\* of the run it stopped, when that run had failed).
StartLaunches ==
    /\ mgr'.pc = "idle" /\ mgr'.op = "start"
    /\ \/ mgr.pc = "join" /\ mgr.op = "start" /\ mgr'.ret = "ok"
       \/ mgr'.starts = mgr.starts + 1

\* C14: when a "scripts/" entry cannot be extracted or is not UTF-8, only
\* that script fails to launch: start() has launched a unit for every
\* other "scripts/" entry.
C14_SourceErrorSparesSiblings ==
    [][StartLaunches =>
          \A i \in 1..Len(archive) :
              (archive[i].name[1] = "scripts" /\ archive[i].data = "utf8")
                  => \E t \in UnitsOf(mgr'.run) : EntryOf(t) = i]_vars

\* The step in which a call of wait() or stop() returns.
WaitOrStopReturns ==
    /\ mgr'.pc = "idle" /\ mgr'.op \in {"wait", "stop"}
    /\ mgr.pc = "join" \/ strategy = "coop"

\* The failures no call has reported yet: native, the failed threads whose
\* handles the manager still holds; cooperative, the failed tasks of the
\* run when no wait() or stop() has returned since its start().
PendingFailures ==
    IF strategy = "native"
    THEN {thr[threads[i]].res : i \in {i \in 1..Len(threads) :
              thr[threads[i]].res \in {"runtime", "source"}}}
    ELSE {task[t].res : t \in {t \in 1..Len(task) :
              /\ mgr.op = "start"
              /\ task[t].run = mgr.run
              /\ task[t].res = "error"}}

\* C15: every script failure other than a cancellation is reported in the
\* result of the next wait() or stop(): the call returns Err, and the
\* aggregated error names each failure.
C15_FailuresReported ==
    [][(WaitOrStopReturns /\ PendingFailures # {}) =>
          /\ mgr'.ret = "err"
          /\ strategy = "native" =>
                \A f \in PendingFailures :
                    \E i \in 1..Len(mgr'.errors) : mgr'.errors[i] = f]_vars

\* The write o hands a malformed value to a field of an object that
\* exists: not a vector for position, rotation, scale or color, not a
\* number for fov or intensity.
Malformed(o) ==
    /\ o.op = "set"
    /\ Get(objects, o.name).some
    /\ IF o.field \in VectorFields
       THEN o.val.kind \notin {"Vector3", "Color3"}
       ELSE o.val.kind # "number"

\* Thread t stands at a write, about to execute it.
AtWrite(t) ==
    /\ thr[t].st = "exec"
    /\ thr[t].pc \in 1..Len(ScriptOf(thr[t]))
    /\ OpAt(thr[t]).op = "set"

\* Native: a thread that stands at the write o does not fail with a
\* runtime error, and when it moves on it is at the next operation with
\* the addressed field of the store as it was.
NativeWriteIgnored(t) ==
    LET o == OpAt(thr[t]) IN
    /\ thr'[t].res # "runtime"
    /\ thr'[t].pc = thr[t].pc + 1 => Seen(objects', o) = Seen(objects, o)

\* Cooperative: the tick that runs the write at position i of task t's
\* script is not rejected and records no change for the addressed field.
CoopWriteIgnored(t, i) ==
    LET o == ScriptOf(task[t])[i] IN
    /\ task'[t].job # "rejected"
    /\ \A k \in 1..Len(task'[t].result.changes.items) :
          LET c == task'[t].result.changes.items[k]
          IN ~(c.object = o.name /\ c.field = o.field)

\* The positions of task t's script that the tick of this step (the
\* evaluator's run) has executed.
RanInStep(t) ==
    IF task[t].job = "pending" /\ task'[t].job # "pending" /\ task'[t].st # "done"
    THEN {i \in task'[t].result.ran[1]..(task'[t].result.ran[2] - 1) :
            i <= Len(ScriptOf(task[t]))}
    ELSE {}

\* C16: a script's write of a malformed value to an object that exists is
\* silently ignored in both strategies: the store is unchanged, no error
\* is raised to the script and the script goes on.
C16_MalformedWriteIgnored ==
    [][/\ \A t \in 1..Len(thr) :
             (AtWrite(t) /\ Malformed(OpAt(thr[t]))) => NativeWriteIgnored(t)
       /\ \A t \in 1..Len(task) :
             \A i \in RanInStep(t) :
                 Malformed(ScriptOf(task[t])[i]) => CoopWriteIgnored(t, i)]_vars

\* The write o addresses a name that is not in the store.
UnknownName(o) == o.op = "set" /\ ~Get(objects, o.name).some

\* C17: for a name that is not in the Scene Store, a script's attempt to
\* write a field of that object changes nothing in the store and raises
\* no error the script can see, in both strategies.
C17_UnknownNameIgnored ==
    [][/\ \A t \in 1..Len(thr) :
             (AtWrite(t) /\ UnknownName(OpAt(thr[t]))) =>
                 /\ thr'[t].res # "runtime"
                 /\ thr'[t].pc = thr[t].pc + 1 => objects' = objects
       /\ \A t \in 1..Len(task) :
             \A i \in RanInStep(t) :
                 UnknownName(ScriptOf(task[t])[i]) =>
                     /\ task'[t].job # "rejected"
                     /\ \A k \in 1..Len(task'[t].result.changes.items) :
                           task'[t].result.changes.items[k].object
                               # ScriptOf(task[t])[i].name]_vars

\* The step in which caller p returns from the method op.
Returns(p, op) ==
    /\ callers[p].op = op
    /\ callers[p].pc = "unlock"
    /\ callers'[p].pc = "idle"

\* C18: a DataModel setter returns true exactly when an object with the
\* name exists; a get(name) after it then shows the written value in the
\* field; when it returns false the store is as it was before the call.
C18_SetterResult ==
    [][\A p \in Callers :
         Returns(p, "set") =>
           LET c == callers[p] IN
           /\ SetterResult(c) <=> Get(c.base, c.name).some
           /\ SetterResult(c) =>
                /\ Get(objects', c.name).some
                /\ Get(objects', c.name).obj[c.field] = c.value
           /\ ~SetterResult(c) => objects' = c.base]_vars

\* A setter is about to return true, having changed the field of an
\* object that held another value.
C18_Witness ==
    \E p \in Callers :
      /\ callers[p].op = "set"
      /\ callers[p].pc = "unlock"
      /\ SetterResult(callers[p])
      /\ Get(callers[p].base, callers[p].name).obj[callers[p].field]
             # callers[p].value
      /\ Get(objects, callers[p].name).obj[callers[p].field]
             = callers[p].value

NamesDistinct(objs) ==
    \A i, j \in 1..Len(objs) : i # j => objs[i].name # objs[j].name

\* C19: the names of the objects in the Scene Store are pairwise distinct
\* in every reachable state: after from_objects, after replace_objects and
\* after any setter.
C19_NamesDistinct == NamesDistinct(objects)

\* The Option<SceneObject> of get and the Vec<SceneObject> of all_objects
\* as a caller's buffer holds them.
Option(g) == IF g.some THEN <<g.obj>> ELSE <<>>

\* C20: with readers and writers running concurrently, a writer is alone
\* in the store (no other writer and no reader is inside a method with
\* it), get() and all_objects() return the object or the vector of a store
\* no write is part-way through, and every write takes effect as a whole.
C20_SnapshotsWhole ==
    /\ [](\A p, q \in Callers :
            (p # q /\ callers[p].op \in {"set", "replace"})
                => callers[q].op = "none")
    /\ [][\A p \in Callers :
            /\ Returns(p, "get") =>
                 callers[p].buf = Option(Get(objects, callers[p].name))
            /\ Returns(p, "all") => callers[p].buf = AllObjects(objects)
            /\ Returns(p, "set") =>
                 objects = SetField(callers[p].base, callers[p].name,
                                    callers[p].field, callers[p].value).objs
            /\ Returns(p, "replace") => objects = callers[p].new]_vars

\* Two readers are inside the store at once, one about to return all the
\* objects of a store that earlier writes have changed, while the other
\* is still reading.
C20_Witness ==
    \E p, q \in Callers :
      /\ p # q
      /\ callers[p].op = "all"
      /\ callers[p].pc = "unlock"
      /\ callers[p].buf # <<>>
      /\ callers[p].buf \notin Scenes
      /\ callers[q].op = "get"
      /\ callers[q].pc = "clone"

\* No caller is inside a writing method of the store.
Settled == \A p \in Callers : callers[p].op \notin {"set", "replace"}

\* The value is one a scene gives the field or one a setter was called
\* with, not words of several values.
Whole(field, v) == v = SceneObject("")[field] \/ v \in SetterValues(field)

\* C21: script threads writing the store concurrently through the setters:
\* a write to one field of one object lands and leaves every other field
\* and object as it was (no update of another script is lost), and once
\* the writers have returned every field holds one whole written value,
\* never words of two values.
C21_ConcurrentWritesWhole ==
    /\ [](Settled => \A i \in 1..Len(objects) : \A f \in SetterFields :
                       Whole(f, objects[i][f]))
    /\ [][\A p \in Callers :
            (callers[p].op = "set" /\ callers[p].pc = "assign"
                 /\ callers'[p] # callers[p]) =>
              /\ Len(objects') = Len(objects)
              /\ \A i \in 1..Len(objects) : \A f \in Fields \cup {"name"} :
                   (i # callers[p].at \/ f # callers[p].field)
                       => objects'[i][f] = objects[i][f]
              /\ callers'[p].pc = "unlock" =>
                   objects'[callers[p].at][callers[p].field]
                       = callers[p].value]_vars

\* A setter is about to return having replaced the position another call
\* wrote to the same object, while the fov written to the other object
\* is still in place.
C21_Witness ==
    \E p \in Callers :
      /\ callers[p].op = "set"
      /\ callers[p].pc = "unlock"
      /\ callers[p].name = "Cube"
      /\ callers[p].field = "position"
      /\ callers[p].value = <<4, 5, 6>>
      /\ Get(callers[p].base, "Cube").obj.position = <<1, 2, 3>>
      /\ Get(objects, "Cube").obj.position = <<4, 5, 6>>
      /\ Get(objects, "Lamp").some
      /\ Get(objects, "Lamp").obj.fov = <<60, 0, 0>>

\* The tasks whose call of the external evaluator has been made and has
\* not yet run to its result.
Evaluating == {t \in 1..Len(task) : task[t].job = "pending"}

\* C22: in the cooperative strategy at most one call of the external
\* evaluator is in progress at any time, over any sequence of start() and
\* stop(), a stop() during an evaluation included.
C22_OneEvaluationAtATime == Cardinality(Evaluating) <= 1

\* The step in which the evaluator runs a tick for the live task t.
TickRuns(t) ==
    /\ task[t].job = "pending"
    /\ task[t].st # "done"
    /\ task'[t].job \in {"resolved", "rejected", "hung"}

\* C23: in the cooperative strategy every tick of a script begins at the
\* position its previous tick of the same run suspended at in wait, and
\* the first tick of a run begins at the script's first statement.
C23_TickResumesWhereSuspended ==
    [][\A t \in 1..Len(task) :
         TickRuns(t) => task'[t].result.ran[1] = task[t].result.ran[2]]_vars

\* C24: in the cooperative strategy stop() retires the continuations, so
\* the first tick of every script of a run started after a stop() begins
\* at the script's first statement with a new continuation.
C24_RestartRunsFromBeginning ==
    [][\A t \in 1..Len(task) :
         (TickRuns(t) /\ task[t].run > 1 /\ task[t].result = NoResult)
             => /\ Continuation(runtime, archive[task[t].entry].name) = 0
                /\ task'[t].result.ran[1] = 1]_vars

\* The change names an existing object, a supported field and a value of
\* the shape the field takes.
ValidChange(objs, c) ==
    c.field \in Fields /\ Len(c.value) = 3 /\ Get(objs, c.object).some

\* The store after the valid changes of the list from the i-th on, in
\* order, every other change passed over.
RECURSIVE ApplyValid(_, _, _)
ApplyValid(objs, changes, i) ==
    IF i > Len(changes) THEN objs
    ELSE IF ValidChange(objs, changes[i])
    THEN ApplyValid(SetField(objs, changes[i].object, changes[i].field,
                             changes[i].value).objs, changes, i + 1)
    ELSE ApplyValid(objs, changes, i + 1)

\* The step in which the live task t takes the result its tick returned.
TakesResult(t) ==
    /\ task[t].st = "eval"
    /\ task[t].job = "resolved"
    /\ ParseResult(task[t].result)
    /\ ~task[t].aborted
    /\ task'[t].st # "eval"

\* C25: in the cooperative strategy, when a task takes the result of a
\* tick, every recorded change that names an existing object, a supported
\* field and a well-formed value is applied to the store, in recorded
\* order, whatever other changes the result holds.
C25_ValidChangesApplied ==
    [][\A t \in 1..Len(task) :
         TakesResult(t) =>
           objects' = ApplyValid(objects, task[t].result.changes.items, 1)]_vars

\* A script of well-formed writes to objects of the scene, wait calls and
\* possibly an error(...), executed in order.
Plain(script) ==
    /\ Straight(script)
    /\ \A i \in 1..Len(script) :
         script[i].op = "set" =>
           /\ Get(InitialObjects, script[i].name).some
           /\ WellFormed(script[i].field, script[i].val)

\* The store after the script's statements from the i-th on have run in
\* order up to the script's end or its error(...).
RECURSIVE Effect(_, _, _)
Effect(script, i, objs) ==
    IF i > Len(script) \/ script[i].op = "error" THEN objs
    ELSE IF script[i].op = "set"
    THEN Effect(script, i + 1,
                SetField(objs, script[i].name, script[i].field,
                         Stored(script[i])).objs)
    ELSE Effect(script, i + 1, objs)

\* The archive's only script has ended, by reaching its end or by a
\* runtime error, in the first run and with no stop() since.
SingleScriptEnded ==
    /\ Len(ScriptEntries(archive)) = 1
    /\ mgr.starts = 1
    /\ ~mgr.stopped
    /\ \/ /\ strategy = "native"
          /\ Len(thr) = 1
          /\ thr[1].st = "exited"
          /\ thr[1].res \in {"ok", "runtime"}
       \/ /\ strategy = "coop"
          /\ Len(task) = 1
          /\ task[1].st = "done"
          /\ task[1].res \in {"ok", "error"}

\* C26: for a single script of well-formed writes to existing objects and
\* wait calls that ends normally or with a runtime error, the store after
\* the script has ended is the same in both strategies: the store its
\* statements produce when run in order.
C26_SameStoreInBothStrategies ==
    (SingleScriptEnded /\ Plain(archive[ScriptEntries(archive)[1]].script))
        => objects = Effect(archive[ScriptEntries(archive)[1]].script, 1,
                            InitialObjects)

\* The step in which the native thread t, at a wait statement, makes the
\* call (and not the instruction hook's step at the same position).
WaitCalled(t) ==
    /\ strategy = "native"
    /\ thr[t].st = "exec"
    /\ thr[t].pc <= Len(ScriptOf(thr[t]))
    /\ OpAt(thr[t]).op = "wait"
    /\ thr'[t] # thr[t]
    /\ thr'[t].since = thr[t].since + 1 \/ thr'[t].res = "runtime"

\* wait returned to the script at once: the thread is at the next
\* statement, with no slice to sleep and no error raised.
ReturnedAtOnce(t) ==
    /\ thr'[t].st = "exec"
    /\ thr'[t].pc = thr[t].pc + 1
    /\ thr'[t].remaining = 0
    /\ thr'[t].res = "none"

\* C27: the native wait called with no argument or with 0 returns normally
\* at once, without a sleep and without the cancellation error, whether the
\* running flag is set or not.
C27_ZeroWaitReturns ==
    [][\A t \in 1..Len(thr) :
         (/\ WaitCalled(t)
          /\ \/ OpAt(thr[t]).val.kind = "nil"
             \/ OpAt(thr[t]).val.kind = "number" /\ OpAt(thr[t]).d = 0)
             => ReturnedAtOnce(t)]_vars

\* After a stop() a thread has gone through wait() and wait(0) and is at
\* the statement after them.
C27_Witness ==
    /\ strategy = "native"
    /\ ~running
    /\ mgr.op = "stop"
    /\ \E t \in 1..Len(thr) :
         /\ thr[t].st = "exec"
         /\ thr[t].pc = 3
         /\ ScriptOf(thr[t]) = ScriptYield

\* The duration is negative or not a number.
BadDuration(o) ==
    /\ o.op = "wait"
    /\ \/ o.val.kind = "number" /\ o.d < 0
       \/ o.val.kind \notin {"number", "nil"}

\* C28: in both strategies wait called with a negative or non-numeric
\* duration behaves like wait(0): no error is raised to the script and no
\* timed suspension is requested (native: the call returns at once;
\* cooperative: the tick suspends there and returns wait = 0).
C28_BadDurationIsZero ==
    [][/\ \A t \in 1..Len(thr) :
            (WaitCalled(t) /\ BadDuration(OpAt(thr[t])))
                => ReturnedAtOnce(t)
       /\ \A t \in 1..Len(task) :
            (TickRuns(t) /\ Straight(ScriptOf(task[t]))) =>
              \A i \in task'[t].result.ran[1]..(task'[t].result.ran[2] - 1) :
                BadDuration(ScriptOf(task[t])[i]) =>
                  /\ task'[t].job = "resolved"
                  /\ task'[t].result.wait = 0]_vars

\* The key and mouse-button identifiers among the names of the model, in
\* the spelling of the sources, and the key or button each denotes.
Identifiers ==
    { <<<<"S", "p", "a", "c", "e">>, Named("Space")>>,
      <<<<"A">>, Character("A")>>,
      <<<<"Q">>, Character("Q")>>,
      <<<<"F", "1">>, Function(1)>>,
      <<<<"1">>, Digit(1)>>,
      <<<<"M", "o", "u", "s", "e">>, MouseButton(0)>>,
      <<<<"M", "o", "u", "s", "e", "1">>, MouseButton(0)>>,
      <<<<"M", "o", "u", "s", "e", "2">>, MouseButton(1)>>,
      <<<<"M", "o", "u", "s", "e", "9">>, MouseButton(8)>> }

\* The identifiers the name is an upper/lower-case variant of.
VariantOf(name) == {e \in Identifiers : eq_ignore_ascii_case(name, e[1])}

\* C29: the input query returns false, without an error or a panic, for
\* every argument that is no key or mouse-button identifier: the empty
\* string, other names, names with non-ASCII characters, non-strings.
C29_UnknownNameIsFalse ==
    (/\ query.by = "native"
     /\ query.arg.kind # "string" \/ VariantOf(query.arg.s) = {})
        => query.result = "false"

\* C30: the input query is case-insensitive: for every identifier and
\* every upper/lower-case variant of it the query returns true exactly
\* when the key or button it denotes is held down.
C30_QueryIgnoresCase ==
    [][(query' # query /\ query'.by = "native"
            /\ query'.arg.kind = "string") =>
         \A e \in VariantOf(query'.arg.s) :
             query'.result = IF e[2] \in input.keys \cup input.mouse_buttons
                             THEN "true" ELSE "false"]_vars

\* The thread executes the statement `place.get(name).field = val` it is at.
SetRuns(t) ==
    /\ strategy = "native"
    /\ thr[t].st = "exec"
    /\ thr[t].pc <= Len(ScriptOf(thr[t]))
    /\ OpAt(thr[t]).op = "set"
    /\ thr'[t] # thr[t]
    /\ thr'[t].since = thr[t].since + 1 \/ thr'[t].res = "runtime"

\* The tick begins with the statement `place.get(name).field = val`.
TickBeginsWithSet(t) ==
    /\ TickRuns(t)
    /\ task'[t].result.ran[1] <= Len(ScriptOf(task[t]))
    /\ ScriptOf(task[t])[task'[t].result.ran[1]].op = "set"

\* C31: in both strategies place.get(name) is a proxy exactly when the
\* Scene Store has an object of that name at the call: the statement
\* `place.get(name).field = val` fails on the absent value when there is
\* no such object, and writes the field of the proxy's object when there
\* is one and val is well formed.
C31_AccessorFindsExactly ==
    [][/\ \A t \in 1..Len(thr) : SetRuns(t) =>
            LET o == OpAt(thr[t]) IN
            /\ ~Get(objects, o.name).some =>
                   thr'[t].pc # thr[t].pc + 1
            /\ (Get(objects, o.name).some /\ WellFormed(o.field, o.val)) =>
                   /\ thr'[t].pc = thr[t].pc + 1
                   /\ Seen(objects', o) = Stored(o)
       /\ \A t \in 1..Len(task) : TickBeginsWithSet(t) =>
            LET from == task'[t].result.ran[1]
                o == ScriptOf(task[t])[from]
            IN
            /\ (~Get(task[t].snapshot, o.name).some /\ o.h = 0) =>
                   /\ task'[t].job = "rejected"
                   /\ task'[t].result.ran[2] = from
            /\ (Get(task[t].snapshot, o.name).some
                    /\ WellFormed(o.field, o.val)) =>
                   /\ task'[t].job = "rejected" =>
                          task'[t].result.ran[2] # from
                   /\ task'[t].job = "resolved" =>
                          task'[t].result.changes.items[1]
                             = Change(o.name, o.field, Stored(o))]_vars

\* C32: for every input state and every queried name the cooperative
\* GetKeyDown, answered from the payload's snapshot of the input state,
\* returns what the native GetKeyDown returns for that state and name.
C32_CoopQueryMatchesNative ==
    [][(query' # query /\ query'.by = "coop") =>
         query'.result
            = IF string_argument(query'.arg).some
              THEN is_key_down_by_name(input, string_argument(query'.arg).s)
              ELSE "false"]_vars

\* The task's call of the evaluator begins: execute_script is called with
\* the payload the task built at the head of its loop.
EvaluationBegins(t) ==
    /\ task[t].job # "pending"
    /\ task'[t].job = "pending"

\* C33: in the cooperative strategy the Scene Store snapshot a tick is
\* evaluated against is the store as it is when the evaluation begins: it
\* holds every change applied by ticks that ended before, and no tick's
\* changes are applied between the snapshot and the evaluation.
C33_SnapshotIsCurrent ==
    [][\A t \in 1..Len(task) :
         EvaluationBegins(t) => task'[t].snapshot = AllObjects(objects)]_vars

\* The names of the store's objects, in order.
NamesOf(objs) == [i \in 1..Len(objs) |-> objs[i].name]

\* The objects with the name.
Named_(objs, name) == {i \in 1..Len(objs) : objs[i].name = name}

\* The store differs from the one before at most in one field of the first
\* object with the name.
OnlyFieldOfFirst(before, after, name, field) ==
    /\ Len(after) = Len(before)
    /\ \A i \in 1..Len(before) : \A f \in Fields \cup {"name"} :
         after[i][f] # before[i][f] =>
            /\ f = field
            /\ i \in Named_(before, name)
            /\ \A j \in Named_(before, name) : i <= j

\* C34: a DataModel setter changes only the addressed field of the first
\* object with the given name: when it returns, every other field and
\* object and the number, names and order of the objects are as they were
\* when it took the guard; and only replace_objects changes the names.
C34_SetterChangesOnlyItsField ==
    /\ [](\A p \in Callers :
            (callers[p].op = "set" /\ callers[p].pc = "unlock") =>
                OnlyFieldOfFirst(callers[p].base, objects, callers[p].name,
                                 callers[p].field))
    /\ [][NamesOf(objects') # NamesOf(objects) =>
            \E p \in Callers : /\ callers[p].op = "replace"
                                /\ callers[p].pc = "assign"
                                /\ callers'[p].pc = "unlock"]_vars

\* A setter is about to return from a store with two objects named Cube:
\* it has written the fov of the first and the second is as it was.
C34_Witness ==
    \E p \in Callers :
      /\ callers[p].op = "set"
      /\ callers[p].pc = "unlock"
      /\ callers[p].name = "Cube"
      /\ callers[p].field = "fov"
      /\ NamesOf(callers[p].base) = <<"Cube", "Cube">>
      /\ objects[1].fov = callers[p].value
      /\ objects[1].fov # callers[p].base[1].fov
      /\ objects[2] = callers[p].base[2]

\* The native start() goes on from the point where the joins of its
\* stop() have returned.
StartGoesOn ==
    /\ strategy = "native"
    /\ mgr.pc = "join"
    /\ mgr.op = "start"
    /\ mgr'.pc = "idle"

\* The handles of the threads that returned an error.
Failed(hs) == {i \in 1..Len(hs) : thr[hs[i]].res # "ok"}

\* C35: a native start() called after a run in which a script failed
\* returns that run's errors, which its stop() reports, launches no script
\* and leaves the manager idle: flag false, no handle held; the start()
\* repeated directly after it, and every start() that finds no handle,
\* launches the scripts.
C35_StartAfterFailedRun ==
    /\ [][StartGoesOn =>
            /\ Failed(threads) # {} =>
                  /\ mgr'.ret = "err"
                  /\ Len(mgr'.errors) = Cardinality(Failed(threads))
                  /\ \A i \in Failed(threads) :
                        \E k \in 1..Len(mgr'.errors) :
                           mgr'.errors[k] = thr[threads[i]].res
                  /\ thr' = thr
                  /\ threads' = <<>>
                  /\ running' = FALSE
            /\ (threads = <<>> /\ ScriptEntries(archive) # <<>>) =>
                  /\ mgr'.ret = "ok"
                  /\ mgr'.count = Len(ScriptEntries(archive))
                  /\ Len(threads') = Len(ScriptEntries(archive))
                  /\ Len(thr') = Len(thr) + Len(threads')
                  /\ running' = TRUE]_vars
    /\ []((strategy = "native" /\ mgr.pc = "idle" /\ mgr.op = "start"
              /\ mgr.ret = "err") =>
            (threads = <<>> /\ ~running))

\* The start() repeated directly after a start() that returned the failed
\* run's error has returned: the scripts are launched again.
C35_Witness ==
    /\ strategy = "native"
    /\ mgr.starts = MaxStarts + 1
    /\ mgr.pc = "idle"
    /\ mgr.op = "start"
    /\ mgr.ret = "ok"
    /\ threads # <<>>
    /\ running
    /\ \E t \in 1..Len(thr) : thr[t].run = 1 /\ thr[t].res = "runtime"

\* A native stop() or wait() returns: its joins have returned.
StopOrWaitReturns ==
    /\ strategy = "native"
    /\ mgr.pc = "join"
    /\ mgr.op \in {"stop", "wait"}
    /\ mgr'.pc = "idle"

\* C36: after a native stop() or wait() has returned, Ok or Err, the
\* manager holds no thread handle: the call reports the error of every
\* failed thread it joined, in handle order, and of no other, so no
\* failure is reported again, and a stop() or wait() that finds no handle,
\* as the one directly after it does, returns Ok.
C36_JoinedOnce ==
    /\ []((strategy = "native" /\ mgr.pc = "idle"
              /\ mgr.op \in {"stop", "wait"}) => threads = <<>>)
    /\ [][StopOrWaitReturns =>
            /\ threads' = <<>>
            /\ Len(mgr'.errors) = Cardinality(Failed(threads))
            /\ \A k \in 1..Len(mgr'.errors) :
                  \E i \in Failed(threads) :
                     /\ mgr'.errors[k] = thr[threads[i]].res
                     /\ Cardinality({j \in Failed(threads) : j < i}) = k - 1
            /\ mgr'.ret = IF Failed(threads) = {} THEN "ok" ELSE "err"
            /\ \A i, j \in 1..Len(threads) :
                  threads[i] = threads[j] => i = j]_vars

\* A stop() or wait() has returned Ok after the only run's script failed
\* with a runtime error: an earlier call reported the failure and took
\* the handle.
C36_Witness ==
    /\ strategy = "native"
    /\ mgr.pc = "idle"
    /\ mgr.op \in {"stop", "wait"}
    /\ mgr.ret = "ok"
    /\ mgr.starts = 1
    /\ threads = <<>>
    /\ \E t \in 1..Len(thr) : thr[t].res = "runtime"

\* The tasks the last start() spawned whose wrapper has not yet run
\* finish_task.
LiveTasks == {t \in 1..Len(task) : task[t].run = mgr.run /\ task[t].st # "done"}

\* C37: in the cooperative strategy the active_tasks counter is the
\* number of tasks of the current run whose teardown has not yet run, and
\* is never below zero (wrapped around).
C37_CounterCountsLiveTasks ==
    strategy = "coop" =>
        /\ active_tasks >= 0
        /\ active_tasks = Cardinality(LiveTasks)

\* The changes the statements a..b-1 of a script record, run in order
\* against the objects: a well-formed write to an object that exists, and
\* an entry the script puts into the list itself.
RECURSIVE RecordedIn(_, _, _, _)
RecordedIn(script, a, b, objs) ==
    IF a >= b THEN <<>>
    ELSE LET o == script[a] IN
         (IF o.op = "set" /\ Get(objs, o.name).some
                /\ WellFormed(o.field, o.val)
          THEN <<Change(o.name, o.field, Stored(o))>>
          ELSE IF o.op = "record"
          THEN <<Change(o.name, o.field, o.val.v)>>
          ELSE <<>>) \o RecordedIn(script, a + 1, b, objs)

\* A script without loops and pcall.
NoJump(script) ==
    \A i \in 1..Len(script) : script[i].op # "jump" /\ script[i].h = 0

\* The task takes the result of its tick: the promise has resolved and the
\* task, not aborted, is polled.
Handled(t) ==
    /\ task[t].st = "eval"
    /\ task[t].job = "resolved"
    /\ ~task[t].aborted
    /\ ~task'[t].aborted
    /\ task'[t] # task[t]

\* C38: in the cooperative strategy the change list a tick returns holds
\* the changes recorded during that tick and none of an earlier tick, a
\* result is taken once, and the store changes only when a task takes its
\* result: every recorded change is applied at most once.
C38_ChangesAppliedOnce ==
    [][/\ \A t \in 1..Len(task) :
            /\ (TickRuns(t) /\ task'[t].job = "resolved"
                    /\ NoJump(ScriptOf(task[t]))) =>
                  task'[t].result.changes.items
                     = RecordedIn(ScriptOf(task[t]), task'[t].result.ran[1],
                                  task'[t].result.ran[2], task[t].snapshot)
            /\ Handled(t) => task'[t].st # "eval"
       /\ (strategy = "coop" /\ objects' # objects) =>
            \E t \in 1..Len(task) : Handled(t)]_vars

\* The second tick of `lamp.scale = ... wait(20) lamp.rotation = ...` has
\* returned: its list holds the rotation only, the scale of the first tick
\* being in the store already.
C38_Witness ==
    \E t \in 1..Len(task) :
      /\ ScriptOf(task[t]) = ScriptTwoTicks
      /\ task[t].st = "eval"
      /\ task[t].job = "resolved"
      /\ task[t].result.ran = <<3, 4>>
      /\ task[t].result.changes.items
            = <<Change("Lamp", "rotation", <<0, 9, 0>>)>>
      /\ Get(objects, "Lamp").obj.scale = <<2, 2, 2>>

\* The tick of task t has ended in a runtime error of the script and the
\* task, not aborted, is polled with the rejected promise.
ErrorTaken(t) ==
    /\ task[t].st = "eval"
    /\ task[t].job = "rejected"
    /\ ~task[t].aborted
    /\ ~task'[t].aborted
    /\ task'[t] # task[t]

\* C39: in the cooperative strategy, when a tick ends in a runtime error
\* of the script none of the tick's changes is applied to the store, the
\* task ends with the error and is never ticked again, and its teardown
\* decrements the active-task counter once.
C39_ErrorTickDropsChanges ==
    [][\A t \in 1..Len(task) :
         /\ ErrorTaken(t) =>
               /\ objects' = objects
               /\ task'[t].st = "done"
               /\ task'[t].res = "error"
               /\ task'[t].job = "none"
               /\ active_tasks' = active_tasks - 1
         /\ (task[t].st = "done" /\ t <= Len(task')) =>
               /\ task'[t].st = "done"
               /\ task'[t].res = task[t].res
               /\ task'[t].job = "pending" => task[t].job = "pending"
               /\ (task[t].res = "error" /\ active_tasks' < active_tasks) =>
                     \E u \in 1..Len(task) :
                        u # t /\ task[u].st # "done" /\ task'[u].st = "done"]_vars

\* The task of `cube.position = Vector3.new(1,2,3) error("boom")` has ended
\* with the error: the position is not in the store, and the counter still
\* counts the other script's task.
C39_Witness ==
    /\ strategy = "coop"
    /\ mgr.starts = 1
    /\ Len(task) = 2
    /\ ScriptOf(task[1]) = ScriptSetThenError
    /\ task[1].st = "done"
    /\ task[1].res = "error"
    /\ task[2].st # "done"
    /\ active_tasks = 1
    /\ running
    /\ Get(objects, "Cube").obj.position = <<0, 0, 0>>

====
